---- MODULE Spec2Model ----
(***************************************************************************)
(* Model of the publish pipeline of solana-geyser-zmq: the framing of      *)
(* records and batches (utils/src/sender.rs TcpBuffer), the fan-out sender *)
(* (TcpSender: publish, wait_min_subscribers, publish_batch, the accept    *)
(* loop and the per-subscriber writer threads), the receiver's parser      *)
(* (src/receiver.rs read_response) and the slot cache of the plugin hook   *)
(* (solana-geyser-plugin-scaffold/src/geyser_plugin_hook.rs).              *)
(***************************************************************************)
EXTENDS Integers, Sequences, FiniteSets, TLC

\* ----------------------------------------------------------------- bounds
\* publish calls made in total by the host threads
MaxPublish == 2
\* flush_data calls (broadcast attempts) of one publish call
MaxAttempts == 2

\* update_account calls made in total by the host threads
MaxPuts == 2
MaxBinds == 3
MaxFramed == 3

\* ------------------------------------------------------ program constants
HEADER_BYTE_SIZE == 4
BYTE_PREFIX_SLOT == 1
BYTE_PREFIX_TX == 2
BPF_LOADER_WRITE_INSTRUCTION_FIRST_BYTE == 0
BPF_UPGRADEABLE_LOADER_WRITE_INSTRUCTION_FIRST_BYTE == 1

\* host callback threads
Threads == {"h1", "h2"}
\* records the host threads publish: a kind tag alone, a kind tag and a body byte
Records == {<<4>>, <<0, 9>>}
\* the TCP connections the accept loop takes in total, by conn_id
ConnIds == {1, 2}
\* slots, entity keys (HashKey::Account(pubkey)) and serialized account
\* records (kind tag 0, then a body byte) of the account updates
Slots == {7}
\* the slots of the callbacks where two slots are under way at once
TwoSlots == Slots \cup {8}
Keys == {"A", "B"}
Vals == {<<0, 1>>, <<0, 2>>}
\* transaction signatures (HashKey::Tx(signature)); every key a bucket can hold
TxKeys == {"T"}
HashKeys == Keys \cup TxKeys
\* SlotStatus
Statuses == {"Processed", "Rooted", "Confirmed"}
\* buckets (Arc<RwLock<HashMap>>) allocated by the puts, and those the
\* callbacks under way at the start may hold
BucketIds == 1..(MaxPuts + Cardinality(Threads))
NoBucket == 0
NoVal == <<>>
\* configurations TcpSender::new and bind are called with
BatchMaxChoices == {6, 10}
MinSubscribersChoices == {0, 2}
BufferSizeChoices == {1}

VARIABLES
    batch_max_bytes,  \* TcpSender.batch_max_bytes
    strict_delivery,  \* TcpSender.strict_delivery
    min_subscribers,  \* TcpSender.min_subscribers
    buffer_size,      \* bind's buffer_size: capacity of each sync_channel
    skip_vote_txs,    \* Config.skip_vote_txs
    skip_deploy_txs,  \* Config.skip_deploy_txs
    buffer,           \* TcpSender.buffer: [data, total_bytesize]
    conns,            \* TcpSender.conns: the ids in the ConnectionMap
    chan,             \* per id, the sync_channel: [queue, rx (receiver alive)]
    writer,           \* per id, the writer thread: none | recv | exiting | gone
    wire,             \* per id, the batches write_all put on the socket
    pc,               \* per host thread, its position in publish
    batch,            \* per host thread, the batch its publish_batch broadcasts
    attempts,         \* per host thread, flush_data calls of its publish so far
    send_errs,        \* per host thread, publish_batch's local send_errs
    disconnects,      \* per host thread, publish_batch's local disconnects
    result,           \* per host thread, what its last publish returned
    npub,             \* publish calls made so far
    staged,           \* history: the records now staged in the buffer, and who published each
    drained,          \* history: every batch flush_data returned, in order
    bidx,             \* history: per host thread, index in drained of its batch
    got,              \* history: per id, the batches enqueued on its channel
    cache,            \* Inner.cache: per slot, the bucket it maps to (or NoBucket)
    bucket,           \* per bucket, its HashMap: key -> record (or NoVal)
    nbucket,          \* buckets allocated so far
    hpc,              \* per host thread, its position in a plugin callback
    slot,             \* per host thread, the callback's slot
    acc,              \* per host thread, update_account's [key, data]
    slot_data,        \* per host thread, the bucket the callback got
    draining,         \* per host thread, entries hash_map.drain() has yet to yield
    nput,             \* update_account and notify_transaction calls made so far
    owed,             \* history: per slot and key, the values a flush may hand over
                      \* for the key: the last one put, or those of overlapping puts
    conc,             \* history: per host thread, its put overlaps another of its key
    tainted,          \* history: per slot, a flush has overlapped another callback
    expect,           \* history: per host thread, owed[slot] when its flush began
    handed,           \* history: per host thread, the entries its flush gave to publish
    metrics,          \* Inner.metrics: the seven error counters
    ret,              \* per host thread, its last callback: the closure's Result
                      \* [kind, n] and what with_inner returned to the host
    classified,       \* history: try_send outcomes of all broadcasts so far: [full, closed]
    vsender,          \* the vector-based TcpSender of src/src/sender.rs: [conns: the Vec
                      \* of senders (by connection), rx: per connection, its receiver
                      \* is alive, pc, to_remove: per thread, publish_batch's position
                      \* and conns_to_remove, seen, removed: history: per thread, the
                      \* connections its try_send found disconnected and those its
                      \* call took out of the Vec, panicked: per thread]
    sized,            \* the TcpBuffer seen through lengths alone (usize values of any
                      \* size): [data: the staged [header, len], total_bytesize,
                      \* batch: the [header, len] of the last flush_data]
    binds             \* the bind calls made on the TcpSender so far: [port, ok]; an
                      \* accept loop runs for each call whose TcpListener::bind was Ok

config == <<batch_max_bytes, strict_delivery, min_subscribers, buffer_size,
            skip_vote_txs, skip_deploy_txs>>
subs == <<binds, conns, chan, writer, wire, got>>
locals == <<pc, batch, attempts, send_errs, disconnects, result, bidx>>
hookvars == <<cache, bucket, nbucket, hpc, slot, acc, slot_data, draining, nput,
              owed, conc, tainted, expect, handed>>
metricvars == <<metrics, ret, classified>>
vars == <<config, vsender, sized, buffer, subs, locals, npub, staged, drained, hookvars, metricvars>>

\* ---------------------------------------------------------------- framing
\* (n as u32).to_le_bytes(): the four low-order bytes of n, least first; the
\* last % 256 is the cast's truncation to 32 bits
to_le_bytes(n) ==
    << n % 256, (n \div 256) % 256, (n \div 65536) % 256, (n \div 16777216) % 256 >>

\* the four bytes read most significant first
from_be_bytes(b) ==
    b[4] + 256 * b[3] + 65536 * b[2] + 16777216 * b[1]

\* u32::from_le_bytes
from_le_bytes(b) ==
    b[1] + 256 * b[2] + 65536 * b[3] + 16777216 * b[4]

\* a usize too large for a bounded integer: hi * 65536 + lo, lo < 65536
Usize(hi, lo) == [hi |-> hi, lo |-> lo]

\* usize addition (the sums stay far below 2^64)
usize_add(a, b) ==
    LET lo == a.lo + b.lo
    IN  Usize(a.hi + b.hi + lo \div 65536, lo % 65536)

\* n as u32: the low 32 bits of n
as_u32(n) == Usize(n.hi % 65536, n.lo)

\* u32::to_le_bytes on such a value
to_le_bytes_u32(n) ==
    << n.lo % 256, n.lo \div 256, n.hi % 256, n.hi \div 256 >>

\* u32::from_le_bytes, as a usize
from_le_bytes_usize(b) == Usize(b[3] + 256 * b[4], b[1] + 256 * b[2])

\* TcpBuffer::append on a message of msg_len bytes: the header written, the
\* message's length, and total_bytesize += result.len()
append_sized(buf, msg_len) ==
    [buf EXCEPT !.data = Append(@, [header |-> to_le_bytes_u32(as_u32(msg_len)),
                                    len |-> msg_len]),
                !.total_bytesize = usize_add(@, usize_add(Usize(0, HEADER_BYTE_SIZE), msg_len))]

\* TcpBuffer::flush_data on lengths: the batch's header and its body's length
flush_data_sized(buf) ==
    [data |-> <<>>, total_bytesize |-> Usize(0, 0),
     batch |-> [header |-> to_le_bytes_u32(as_u32(buf.total_bytesize)),
                len |-> buf.total_bytesize]]

\* no flush_data yet
NoBatch == [header |-> <<>>, len |-> Usize(0, 0)]

\* message lengths around 2^31 and 2^32
Lengths == {Usize(0, 1), Usize(0, 65535), Usize(32768, 0), Usize(65535, 65535),
            Usize(65536, 0), Usize(65536, 5)}

RECURSIVE Concat(_)
Concat(ss) == IF ss = <<>> THEN <<>> ELSE Head(ss) \o Concat(Tail(ss))

\* append with a length prefix that counts the prefix itself
append_len_with_header(buf, msg) ==
    LET framed == to_le_bytes(HEADER_BYTE_SIZE + Len(msg)) \o msg
    IN  [data |-> Append(buf.data, framed),
         total_bytesize |-> buf.total_bytesize + Len(framed)]

\* append that puts the framed record in front of the staged ones
append_front(buf, msg) ==
    LET framed == to_le_bytes(Len(msg)) \o msg
    IN  [data |-> <<framed>> \o buf.data,
         total_bytesize |-> buf.total_bytesize + Len(framed)]

\* append that adds the message's length alone to total_bytesize
append_total_without_header(buf, msg) ==
    LET framed == to_le_bytes(Len(msg)) \o msg
    IN  [data |-> Append(buf.data, framed),
         total_bytesize |-> buf.total_bytesize + Len(msg)]

\* TcpBuffer::append
append(buf, msg) ==
    LET framed == to_le_bytes(Len(msg)) \o msg
    IN  [data |-> Append(buf.data, framed),
         total_bytesize |-> buf.total_bytesize + Len(framed)]

\* flush_data with a total that counts the batch header too
flush_data_total_with_header(buf) ==
    [batch |-> to_le_bytes(HEADER_BYTE_SIZE + buf.total_bytesize) \o Concat(buf.data),
     buffer |-> [data |-> <<>>, total_bytesize |-> 0]]

\* flush_data that returns the batch and leaves the buffer as it was
flush_data_keep(buf) ==
    [batch |-> to_le_bytes(buf.total_bytesize) \o Concat(buf.data),
     buffer |-> buf]

\* TcpBuffer::flush_data: the batch it returns and the buffer it leaves
flush_data(buf) ==
    [batch |-> to_le_bytes(buf.total_bytesize) \o Concat(buf.data),
     buffer |-> [data |-> <<>>, total_bytesize |-> 0]]

\* what read_response yields where the Rust slice body[i..end] is out of range
\* (the task panics): no byte is negative, so this is no record
PANIC == <<-1>>

\* TcpReceiver::read_response, the loop over the body: the records handed to
\* the callback, in order; a slice past the end of the body panics
RECURSIVE read_records(_)
read_records(body) ==
    IF Len(body) = 0 THEN <<>>
    ELSE IF Len(body) < HEADER_BYTE_SIZE THEN <<PANIC>>
    ELSE LET size == from_le_bytes(SubSeq(body, 1, HEADER_BYTE_SIZE))
             end == HEADER_BYTE_SIZE + size
         IN  IF end > Len(body) THEN <<PANIC>>
             ELSE <<SubSeq(body, HEADER_BYTE_SIZE + 1, end)>>
                      \o read_records(SubSeq(body, end + 1, Len(body)))

\* TcpReceiver::read_response on the bytes of one batch: header, body, records
read_response(bytes) ==
    LET header == SubSeq(bytes, 1, HEADER_BYTE_SIZE)
        body == SubSeq(bytes, HEADER_BYTE_SIZE + 1,
                       HEADER_BYTE_SIZE + from_le_bytes(header))
    IN  read_records(body)

\* TcpReceiver::connect_and_read on the bytes the stream has delivered so far:
\* read_response after read_response, each one read_exact of a header and of
\* the body it announces; a read_exact that lacks bytes waits
RECURSIVE connect_and_read(_)
connect_and_read(stream) ==
    IF Len(stream) < HEADER_BYTE_SIZE THEN <<>>
    ELSE LET n == HEADER_BYTE_SIZE + from_le_bytes(SubSeq(stream, 1, HEADER_BYTE_SIZE))
         IN  IF Len(stream) < n THEN <<>>
             ELSE read_response(SubSeq(stream, 1, n))
                      \o connect_and_read(SubSeq(stream, n + 1, Len(stream)))

\* ----------------------------------------------------------------- sender
\* the guard dropped as soon as the buffer is drained
HoldsBufferNever(t) == FALSE

\* a put that takes the TcpSender.buffer lock before it locks the bucket
HoldsBufferInPut(t) ==
    pc[t] \in {"gate", "gate_rd", "bcast", "bcast_rd", "sleep"} \/ hpc[t] = "put_insert"

\* the MutexGuard on TcpSender.buffer lives from publish's lock() to its return
HoldsBuffer(t) == pc[t] \in {"gate", "gate_rd", "bcast", "bcast_rd", "sleep"}

BufferLocked == \E t \in Threads : HoldsBuffer(t)

\* the polling loop ended by a strict comparison
GatePassesStrictly(n, k) == n > k

\* wait_min_subscribers: the test that ends the polling loop
GatePasses(n, k) == n >= k

\* what a try_send can return: Ok, TrySendError::Full, TrySendError::Disconnected
TrySendOutcomes == {"Ok", "Full", "Disconnected"}

\* SyncSender::send in its place: on a full queue the caller waits for room
send(c, cap) ==
    IF ~c.rx THEN "Disconnected"
    ELSE IF Len(c.queue) >= cap THEN "Wait"
    ELSE "Ok"

\* SyncSender::try_send on a sync_channel of capacity buffer_size
try_send(c, cap) ==
    IF ~c.rx THEN "Disconnected"
    ELSE IF Len(c.queue) >= cap THEN "Full"
    ELSE "Ok"

\* the loop over conns left at the first failed try_send (conns visited in
\* ascending id order)
RECURSIVE broadcast_until_error(_, _, _, _)
broadcast_until_error(ids, ch, b, cap) ==
    IF ids = {} THEN [chan |-> ch, sent |-> {}, send_errs |-> 0, disconnects |-> 0]
    ELSE LET id == CHOOSE i \in ids : \A j \in ids : i <= j
             out == try_send(ch[id], cap)
             rest == broadcast_until_error(ids \ {id}, ch, b, cap)
         IN  IF out = "Ok"
             THEN [chan |-> [rest.chan EXCEPT ![id].queue = Append(@, b)],
                   sent |-> rest.sent \cup {id},
                   send_errs |-> rest.send_errs,
                   disconnects |-> rest.disconnects]
             ELSE [chan |-> ch, sent |-> {},
                   send_errs |-> IF out = "Full" THEN 1 ELSE 0,
                   disconnects |-> IF out = "Full" THEN 0 ELSE 1]

\* publish_batch, the loop over conns: try_send of a clone of the batch on every
\* connection, counting the Full and the other (disconnected) errors
broadcast(ids, ch, b, cap) ==
    LET out == [id \in ids |-> try_send(ch[id], cap)]
    IN  [chan |-> [id \in DOMAIN ch |->
                     IF id \in ids /\ out[id] = "Ok"
                     THEN [ch[id] EXCEPT !.queue = Append(@, b)]
                     ELSE ch[id]],
         sent |-> {id \in ids : out[id] = "Ok"},
         send_errs |-> Cardinality({id \in ids : out[id] = "Full"}),
         disconnects |-> Cardinality({id \in ids : out[id] \notin {"Ok", "Full"}})]

\* a Result in which the disconnects take precedence over the full queues
publish_batch_result_disc_first(errs, disc) ==
    IF disc > 0 THEN [kind |-> "TcpDisconnects", n |-> disc]
    ELSE IF errs > 0 THEN [kind |-> "TcpSend", n |-> errs]
    ELSE [kind |-> "Ok", n |-> 0]

\* publish_batch: its Result from the two local counters
publish_batch_result(errs, disc) ==
    IF errs > 0 THEN [kind |-> "TcpSend", n |-> errs]
    ELSE IF disc > 0 THEN [kind |-> "TcpDisconnects", n |-> disc]
    ELSE [kind |-> "Ok", n |-> 0]

\* TcpSender::new: an empty buffer; no host thread inside publish
InitPublishers ==
    /\ vsender = [conns |-> <<>>, rx |-> [id \in ConnIds |-> FALSE],
                  pc |-> [t \in Threads |-> "idle"],
                  to_remove |-> [t \in Threads |-> <<>>],
                  seen |-> [t \in Threads |-> {}],
                  removed |-> [t \in Threads |-> {}],
                  panicked |-> [t \in Threads |-> FALSE]]
    /\ sized = [data |-> <<>>, total_bytesize |-> Usize(0, 0), batch |-> NoBatch]
    /\ buffer = [data |-> <<>>, total_bytesize |-> 0]
    /\ pc = [t \in Threads |-> "idle"]
    /\ batch = [t \in Threads |-> <<>>]
    /\ attempts = [t \in Threads |-> 0]
    /\ send_errs = [t \in Threads |-> 0]
    /\ disconnects = [t \in Threads |-> 0]
    /\ result = [t \in Threads |-> [kind |-> "none", n |-> 0]]
    /\ bidx = [t \in Threads |-> 0]
    /\ npub = 0
    /\ staged = <<>>
    /\ drained = <<>>

\* the ports bind is called with: the configured tcp_port and another one
Ports == {"tcp_port", "other_port"}

\* on_load: socket.bind(cfg.tcp_port, cfg.tcp_buffer_size).unwrap()
OnLoadBinds == << [port |-> "tcp_port", ok |-> TRUE] >>

\* the ports on which thread::spawn'ed accept loops of this TcpSender listen
listeners == {binds[i].port : i \in {j \in DOMAIN binds : binds[j].ok}}

\* TcpSender::new and bind: an empty ConnectionMap
InitNoConns ==
    /\ binds = OnLoadBinds
    /\ conns = {}
    /\ chan = [id \in ConnIds |-> [queue |-> <<>>, rx |-> FALSE]]
    /\ writer = [id \in ConnIds |-> "none"]
    /\ wire = [id \in ConnIds |-> <<>>]
    /\ got = [id \in ConnIds |-> <<>>]

\* a configuration in which notify_transaction filters nothing by kind
NoTxFilters ==
    /\ skip_vote_txs = FALSE
    /\ skip_deploy_txs = FALSE

\* on_load: an empty cache; no host thread inside a callback
InitHookOn(S) ==
    /\ cache = [s \in S |-> NoBucket]
    /\ bucket = [b \in BucketIds |-> [k \in HashKeys |-> NoVal]]
    /\ nbucket = 0
    /\ hpc = [t \in Threads |-> "none"]
    /\ slot = [t \in Threads |-> 0]
    /\ acc = [t \in Threads |-> [key |-> "", data |-> NoVal]]
    /\ slot_data = [t \in Threads |-> NoBucket]
    /\ draining = [t \in Threads |-> {}]
    /\ nput = 0
    /\ owed = [s \in S |-> [k \in HashKeys |-> {}]]
    /\ conc = [t \in Threads |-> FALSE]
    /\ tainted = [s \in S |-> FALSE]
    /\ expect = [t \in Threads |-> [k \in HashKeys |-> {}]]
    /\ handed = [t \in Threads |-> <<>>]
    /\ metrics = [send_errs |-> 0, disconnect_errs |-> 0, serialize_errs |-> 0,
                  sender_lock_errs |-> 0, conn_lock_errs |-> 0, cache_lock_errs |-> 0,
                  untyped_errs |-> 0]
    /\ ret = [t \in Threads |-> [kind |-> "none", n |-> 0, host |-> "none"]]
    /\ classified = [full |-> 0, closed |-> 0]

InitHook == InitHookOn(Slots)

Init ==
    /\ batch_max_bytes \in BatchMaxChoices
    /\ strict_delivery \in BOOLEAN
    /\ min_subscribers \in MinSubscribersChoices
    /\ buffer_size \in BufferSizeChoices
    /\ InitNoConns
    /\ InitPublishers
    /\ InitHook
    /\ NoTxFilters

\* where publish_batch starts: wait_min_subscribers polls only when
\* min_subscribers > 0
AfterFlush == IF min_subscribers > 0 THEN "gate" ELSE "bcast"

\* publish, from lock() to the first publish_batch call: append, then return
\* Ok below the threshold, or drain the buffer and keep the guard
publish(t, msg) ==
    /\ pc[t] = "idle"
    /\ ~BufferLocked
    /\ npub < MaxPublish
    /\ npub' = npub + 1
    /\ LET appended == append(buffer, msg)
       IN  IF appended.total_bytesize < batch_max_bytes
           THEN /\ buffer' = appended
                /\ staged' = Append(staged, [msg |-> msg, by |-> t, seq |-> npub + 1])
                /\ result' = [result EXCEPT ![t] = [kind |-> "Ok", n |-> 0]]
                /\ UNCHANGED <<pc, batch, attempts, bidx, drained>>
           ELSE /\ buffer' = flush_data(appended).buffer
                /\ staged' = <<>>
                /\ result' = [result EXCEPT ![t] = [kind |-> "none", n |-> 0]]
                /\ batch' = [batch EXCEPT ![t] = flush_data(appended).batch]
                /\ drained' = Append(drained, [batch |-> flush_data(appended).batch,
                                               recs |-> Append(staged,
                                                   [msg |-> msg, by |-> t, seq |-> npub + 1]),
                                               by |-> t])
                /\ bidx' = [bidx EXCEPT ![t] = Len(drained) + 1]
                /\ attempts' = [attempts EXCEPT ![t] = 1]
                /\ pc' = [pc EXCEPT ![t] = AfterFlush]
    /\ UNCHANGED <<config, vsender, sized, subs, send_errs, disconnects>>

\* a direct call of publish by a thread that is in no callback (the heartbeat
\* thread of on_load, the callbacks of src/src/geyser_plugin_hook.rs)
Publish(t, msg) ==
    /\ hpc[t] = "none"
    /\ publish(t, msg)
    /\ UNCHANGED <<hookvars, metricvars>>

\* serialize_metadata(send_errs): kind tag 4, then the counter
serialize_metadata(n) == <<4, n % 256>>

\* the heartbeat thread of on_load, one round of its loop: publish the
\* metadata record; an Err is logged and nothing else
Heartbeat(t) == Publish(t, serialize_metadata(metrics.send_errs))

\* a retry that sends the batch of the failed attempt again
retry_same_batch(buf, failed) == [buffer |-> buf, batch |-> failed]

\* the batch of a retry: the loop body evaluates buffer.flush_data() anew, the
\* batch of the failed attempt is gone
retry_batch(buf, failed) == flush_data(buf)

\* publish in strict mode, after the 1 s sleep: continue, that is
\* publish_batch(buffer.flush_data()) again, with the guard still held
Retry(t) ==
    /\ pc[t] = "sleep"
    /\ attempts[t] < MaxAttempts
    /\ buffer' = retry_batch(buffer, batch[t]).buffer
    /\ staged' = <<>>
    /\ batch' = [batch EXCEPT ![t] = retry_batch(buffer, batch[t]).batch]
    /\ drained' = Append(drained, [batch |-> retry_batch(buffer, batch[t]).batch,
                                   recs |-> staged, by |-> t])
    /\ bidx' = [bidx EXCEPT ![t] = Len(drained) + 1]
    /\ attempts' = [attempts EXCEPT ![t] = @ + 1]
    /\ pc' = [pc EXCEPT ![t] = AfterFlush]
    /\ UNCHANGED <<config, vsender, sized, subs, send_errs, disconnects, result, npub, hookvars, metricvars>>

\* wait_min_subscribers: one poll of conns.len() under the read lock
WaitMinSubscribers(t) ==
    /\ pc[t] = "gate"
    /\ IF GatePasses(Cardinality(conns), min_subscribers)
       THEN pc' = [pc EXCEPT ![t] = "bcast"]
       ELSE UNCHANGED pc
    /\ UNCHANGED <<config, vsender, sized, buffer, subs, batch, attempts, send_errs, disconnects,
                   result, bidx, npub, staged, drained, hookvars, metricvars>>

\* a publish_batch that drops the subscribers whose receiver is gone
conns_without_closed(cs, ch) == {id \in cs : ch[id].rx}

\* a publish_batch that disconnects the subscribers whose queue is full
conns_without_full(cs, ch) == {id \in cs : Len(ch[id].queue) < buffer_size}

\* the ConnectionMap after publish_batch: it is only read (conns.read()), and
\* the counted disconnects remove nothing
conns_after_broadcast(cs, ch) == cs

\* publish_batch, the block under the conns read guard and what follows: the
\* loop over conns, its Result, and what publish does with it (retry after a
\* sleep, or return)
publish_batch(t) ==
    /\ \A id \in conns : try_send(chan[id], buffer_size) \in TrySendOutcomes
    /\ LET bc == broadcast(conns, chan, batch[t], buffer_size)
           r == publish_batch_result(bc.send_errs, bc.disconnects)
       IN  /\ chan' = bc.chan
           /\ got' = [id \in ConnIds |->
                         IF id \in bc.sent
                         THEN Append(got[id], [idx |-> bidx[t], batch |-> batch[t]])
                         ELSE got[id]]
           /\ send_errs' = [send_errs EXCEPT ![t] = bc.send_errs]
           /\ disconnects' = [disconnects EXCEPT ![t] = bc.disconnects]
           /\ IF r.kind # "Ok" /\ strict_delivery /\ hpc[t] # "put_ret"
              THEN /\ pc' = [pc EXCEPT ![t] = "sleep"]
                   /\ UNCHANGED <<result, batch, attempts, bidx>>
              ELSE /\ pc' = [pc EXCEPT ![t] = "idle"]
                   /\ result' = [result EXCEPT ![t] = r]
                   /\ batch' = [batch EXCEPT ![t] = <<>>]
                   /\ attempts' = [attempts EXCEPT ![t] = 0]
                   /\ bidx' = [bidx EXCEPT ![t] = 0]
    /\ classified' = [full |-> classified.full + send_errs'[t],
                       closed |-> classified.closed + disconnects'[t]]
    /\ conns' = conns_after_broadcast(conns, chan)
    /\ UNCHANGED <<config, vsender, sized, buffer, binds, writer, wire, npub, staged, drained, hookvars,
                   metrics, ret>>

\* publish_batch after the gate: conns.read(), the loop and the guard's drop
\* taken as one step
PublishBatch(t) ==
    /\ pc[t] = "bcast"
    /\ publish_batch(t)

\* bind's accept loop: sync_channel, add_conn, spawn the writer thread
Accept ==
    /\ listeners # {}
    /\ \E id \in ConnIds :
          /\ writer[id] = "none"
          /\ \A j \in ConnIds : j < id => writer[j] # "none"
          /\ conns' = conns \cup {id}
          /\ chan' = [chan EXCEPT ![id] = [queue |-> <<>>, rx |-> TRUE]]
          /\ writer' = [writer EXCEPT ![id] = "recv"]
    /\ UNCHANGED <<config, vsender, sized, buffer, binds, wire, got, locals, npub, staged, drained, hookvars, metricvars>>

\* writer thread: rx yields a batch and write_all succeeds
WriterWrite(id) ==
    /\ writer[id] = "recv"
    /\ chan[id].queue # <<>>
    /\ wire' = [wire EXCEPT ![id] = Append(@, Head(chan[id].queue))]
    /\ chan' = [chan EXCEPT ![id].queue = Tail(@)]
    /\ UNCHANGED <<config, vsender, sized, buffer, binds, conns, writer, got, locals, npub, staged, drained,
                   hookvars, metricvars>>

\* writer thread: rx yields a batch and write_all fails: break, rx is dropped
WriterWriteErr(id) ==
    /\ writer[id] \in {"recv", "peer_closed"}
    /\ chan[id].queue # <<>>
    /\ chan' = [chan EXCEPT ![id] = [queue |-> <<>>, rx |-> FALSE]]
    /\ writer' = [writer EXCEPT ![id] = "exiting"]
    /\ UNCHANGED <<config, vsender, sized, buffer, binds, conns, wire, got, locals, npub, staged, drained,
                   hookvars, metricvars>>

\* the subscriber closes its socket: the writer thread, blocked in rx's
\* iterator or about to be, learns of it only from a failing write_all
PeerClose(id) ==
    /\ writer[id] = "recv"
    /\ writer' = [writer EXCEPT ![id] = "peer_closed"]
    /\ UNCHANGED <<config, vsender, sized, buffer, binds, conns, chan, wire, got, locals, npub, staged, drained,
                   hookvars, metricvars>>

\* a removal that empties the ConnectionMap
remove_conn_clear(cs, id) == {}

\* remove_conn: conns.remove(id)
remove_conn(cs, id) == cs \ {id}

\* writer thread, after the loop: remove_conn
RemoveConn(id) ==
    /\ writer[id] = "exiting"
    /\ conns' = remove_conn(conns, id)
    /\ writer' = [writer EXCEPT ![id] = "gone"]
    /\ UNCHANGED <<config, vsender, sized, buffer, binds, chan, wire, got, locals, npub, staged, drained,
                   hookvars, metricvars>>

\* the threads that hold a read guard on TcpSender.conns
ConnsReaders == {t \in Threads : pc[t] \in {"gate_rd", "bcast_rd"}}

\* the connections whose accept or writer thread holds the write guard on conns
ConnsWriters == {id \in ConnIds : writer[id] \in {"adding", "removing"}}

\* wait_min_subscribers and publish_batch: self.conns.read()
ConnsRead(t) ==
    /\ pc[t] \in {"gate", "bcast"}
    /\ ConnsWriters = {}
    /\ pc' = [pc EXCEPT ![t] = IF pc[t] = "gate" THEN "gate_rd" ELSE "bcast_rd"]
    /\ UNCHANGED <<config, vsender, sized, buffer, subs, batch, attempts, send_errs, disconnects,
                   result, bidx, npub, staged, drained, hookvars, metricvars>>

\* wait_min_subscribers: conns.len() under the read guard, the guard's drop,
\* and the comparison (then the 1 s sleep and another round)
GateLocked(t) ==
    /\ pc[t] = "gate_rd"
    /\ pc' = [pc EXCEPT ![t] = IF GatePasses(Cardinality(conns), min_subscribers)
                                THEN "bcast" ELSE "gate"]
    /\ UNCHANGED <<config, vsender, sized, buffer, subs, batch, attempts, send_errs, disconnects,
                   result, bidx, npub, staged, drained, hookvars, metricvars>>

\* publish_batch: the loop under the read guard taken by ConnsRead
BroadcastLocked(t) ==
    /\ pc[t] = "bcast_rd"
    /\ publish_batch(t)

\* the accept loop has a connection: add_conn's conns.write()
AddConnLock(id) ==
    /\ listeners # {}
    /\ writer[id] = "none"
    /\ \A j \in ConnIds : j < id => writer[j] # "none"
    /\ ConnsReaders = {} /\ ConnsWriters = {}
    /\ writer' = [writer EXCEPT ![id] = "adding"]
    /\ UNCHANGED <<config, vsender, sized, buffer, binds, conns, chan, wire, got, locals, npub, staged,
                   drained, hookvars, metricvars>>

\* add_conn under the write guard, then the writer thread is spawned
AddConn(id) ==
    /\ writer[id] = "adding"
    /\ conns' = conns \cup {id}
    /\ chan' = [chan EXCEPT ![id] = [queue |-> <<>>, rx |-> TRUE]]
    /\ writer' = [writer EXCEPT ![id] = "recv"]
    /\ UNCHANGED <<config, vsender, sized, buffer, binds, wire, got, locals, npub, staged, drained,
                   hookvars, metricvars>>

\* writer thread, after the loop: remove_conn's conns.write()
RemoveConnLock(id) ==
    /\ writer[id] = "exiting"
    /\ ConnsReaders = {} /\ ConnsWriters = {}
    /\ writer' = [writer EXCEPT ![id] = "removing"]
    /\ UNCHANGED <<config, vsender, sized, buffer, binds, conns, chan, wire, got, locals, npub, staged,
                   drained, hookvars, metricvars>>

\* remove_conn under the write guard
RemoveConnLocked(id) ==
    /\ writer[id] = "removing"
    /\ conns' = remove_conn(conns, id)
    /\ writer' = [writer EXCEPT ![id] = "gone"]
    /\ UNCHANGED <<config, vsender, sized, buffer, binds, chan, wire, got, locals, npub, staged, drained,
                   hookvars, metricvars>>

\* TcpSender::bind(port, buffer_size): TcpListener::bind fails when one of this
\* process's listeners already holds the port (and `?` returns the error before
\* any thread is spawned); otherwise an accept loop over a clone of self.conns is
\* spawned and bind returns Ok. Nothing in TcpSender records an earlier bind.
bind(port) ==
    /\ Len(binds) < MaxBinds
    /\ binds' = Append(binds, [port |-> port, ok |-> port \notin listeners])
    /\ UNCHANGED <<config, vsender, sized, buffer, conns, chan, writer, wire, got, locals, npub, staged,
                   drained, hookvars, metricvars>>

\* TcpSender::publish seen through lengths: buffer.append(message)
AppendSized(msg_len) ==
    /\ Len(sized.data) < MaxFramed
    /\ sized' = append_sized(sized, msg_len)
    /\ UNCHANGED <<config, vsender, buffer, subs, locals, npub, staged, drained, hookvars, metricvars>>

\* TcpSender::publish seen through lengths: buffer.flush_data()
FlushSized ==
    /\ sized.data # <<>>
    /\ sized' = flush_data_sized(sized)
    /\ UNCHANGED <<config, vsender, buffer, subs, locals, npub, staged, drained, hookvars, metricvars>>

\* ------------------------------------- the vector-based TcpSender (src/src)
\* Vec::remove(i) on a 1-based sequence
vec_remove(v, i) == SubSeq(v, 1, i - 1) \o SubSeq(v, i + 1, Len(v))

\* conns_to_remove.iter().rev().for_each(|&i| conns.remove(i)): the Vec that is
\* left and the connections taken out, or a panic at an index past the end
RECURSIVE remove_rev(_, _)
remove_rev(v, idxs) ==
    IF idxs = <<>> THEN [conns |-> v, removed |-> {}, panicked |-> FALSE]
    ELSE LET i == idxs[Len(idxs)]
         IN  IF i > Len(v) THEN [conns |-> v, removed |-> {}, panicked |-> TRUE]
             ELSE LET r == remove_rev(vec_remove(v, i), SubSeq(idxs, 1, Len(idxs) - 1))
                  IN  [r EXCEPT !.removed = @ \cup {v[i]}]

\* the indices, in order, at which try_send reports a disconnected receiver
RECURSIVE disconnected_at(_, _, _)
disconnected_at(v, rx, i) ==
    IF i > Len(v) THEN <<>>
    ELSE (IF rx[v[i]] THEN <<>> ELSE <<i>>) \o disconnected_at(v, rx, i + 1)

\* the accept loop: sync_channel, add_conn pushes the sender at the end
VecAccept ==
    /\ \E id \in ConnIds :
          /\ ~vsender.rx[id]
          /\ \A i \in DOMAIN vsender.conns : vsender.conns[i] # id
          /\ \A j \in ConnIds : j < id => vsender.rx[j]
                                           \/ \E i \in DOMAIN vsender.conns : vsender.conns[i] = j
          /\ vsender' = [vsender EXCEPT !.conns = Append(@, id), !.rx[id] = TRUE]
    /\ UNCHANGED <<config, sized, buffer, subs, locals, npub, staged, drained, hookvars, metricvars>>

\* a writer thread's write_all fails: break, rx is dropped (nothing is removed
\* from the Vec by the writer thread)
VecWriterErr(id) ==
    /\ vsender.rx[id]
    /\ vsender' = [vsender EXCEPT !.rx[id] = FALSE]
    /\ UNCHANGED <<config, sized, buffer, subs, locals, npub, staged, drained, hookvars, metricvars>>

\* publish_batch, the block under conns.read(): try_send over the Vec, the
\* indices of the disconnected pushed to conns_to_remove
VecScan(t) ==
    /\ vsender.pc[t] = "idle"
    /\ ~vsender.panicked[t]
    /\ LET idxs == disconnected_at(vsender.conns, vsender.rx, 1)
       IN  vsender' = [vsender EXCEPT !.pc[t] = "scanned",
                                      !.to_remove[t] = idxs,
                                      !.seen[t] = {vsender.conns[idxs[k]] : k \in DOMAIN idxs},
                                      !.removed[t] = {}]
    /\ UNCHANGED <<config, sized, buffer, subs, locals, npub, staged, drained, hookvars, metricvars>>

\* publish_batch, after the read guard is dropped: conns.write() and the
\* removals by index, then the Result
VecRemove(t) ==
    /\ vsender.pc[t] = "scanned"
    /\ LET r == remove_rev(vsender.conns, vsender.to_remove[t])
       IN  vsender' = [vsender EXCEPT !.pc[t] = "idle",
                                      !.to_remove[t] = <<>>,
                                      !.conns = r.conns,
                                      !.removed[t] = r.removed,
                                      !.panicked[t] = r.panicked]
    /\ UNCHANGED <<config, sized, buffer, subs, locals, npub, staged, drained, hookvars, metricvars>>

\* ------------------------------------------------------------ plugin hook
\* the write guard on a bucket's RwLock: update_slot_status holds it from
\* slot_data.write() to the end of its if-let block, over the whole drain loop
HoldsBucket(t, b) == hpc[t] = "drain" /\ slot_data[t] = b

BucketLocked(b) == \E t \in Threads : HoldsBucket(t, b)

\* thread u is inside update_account for slot s, before its cache.insert
InPut(u, s) == hpc[u] \in {"put_insert", "put_cache"} /\ slot[u] = s

\* thread u is inside update_slot_status for slot s, holding its bucket
InFlush(u, s) == hpc[u] \in {"flush_lock", "drain"} /\ slot[u] = s

\* update_account with is_startup = false and an account that passes
\* is_nft_account: serialize_account, then cache.get(&slot).unwrap_or(a new map)
PutGet(t, s, k, v) ==
    /\ hpc[t] = "none"
    /\ pc[t] = "idle"
    /\ nput < MaxPuts
    /\ nput' = nput + 1
    /\ slot' = [slot EXCEPT ![t] = s]
    /\ acc' = [acc EXCEPT ![t] = [key |-> k, data |-> v]]
    /\ IF cache[s] # NoBucket
       THEN /\ slot_data' = [slot_data EXCEPT ![t] = cache[s]]
            /\ UNCHANGED nbucket
       ELSE /\ slot_data' = [slot_data EXCEPT ![t] = nbucket + 1]
            /\ nbucket' = nbucket + 1
    /\ hpc' = [hpc EXCEPT ![t] = "put_insert"]
    /\ conc' = [u \in Threads |->
                  IF u = t THEN \E w \in Threads \ {t} : InPut(w, s) /\ acc[w].key = k
                  ELSE conc[u] \/ (InPut(u, s) /\ acc[u].key = k)]
    /\ tainted' = [tainted EXCEPT ![s] = @ \/ \E u \in Threads : InFlush(u, s)]
    /\ UNCHANGED <<config, vsender, sized, buffer, subs, locals, npub, staged, drained,
                   cache, bucket, draining, owed, expect, handed>>
    /\ UNCHANGED metricvars

\* update_account: slot_data.write()?.insert(HashKey::Account(key), data)
PutInsert(t) ==
    /\ hpc[t] = "put_insert"
    /\ ~BucketLocked(slot_data[t])
    /\ bucket' = [bucket EXCEPT ![slot_data[t]][acc[t].key] = acc[t].data]
    /\ hpc' = [hpc EXCEPT ![t] = "put_cache"]
    /\ UNCHANGED <<config, vsender, sized, buffer, subs, locals, npub, staged, drained,
                   cache, nbucket, slot, acc, slot_data, draining, nput, owed, conc,
                   tainted, expect, handed>>
    /\ UNCHANGED metricvars

\* update_account: inner.cache.insert(slot, slot_data)
PutCacheInsert(t) ==
    /\ hpc[t] = "put_cache"
    /\ cache' = [cache EXCEPT ![slot[t]] = slot_data[t]]
    /\ hpc' = [hpc EXCEPT ![t] = "put_flush"]
    /\ owed' = [owed EXCEPT ![slot[t]][acc[t].key] =
                  IF conc[t] THEN @ \cup {acc[t].data} ELSE {acc[t].data}]
    /\ conc' = [conc EXCEPT ![t] = FALSE]
    /\ UNCHANGED <<config, vsender, sized, buffer, subs, locals, npub, staged, drained,
                   bucket, nbucket, slot, acc, slot_data, draining, nput, tainted,
                   expect, handed>>
    /\ UNCHANGED metricvars

\* the GeyserError kinds with_inner downcasts to
KnownKinds == {"TcpSend", "TcpDisconnects", "TxSerializeError", "SenderLockError",
               "ConnLockError", "CacheLockError"}

\* a translator that counts one per TcpSend and TcpDisconnects, whatever the amount
with_inner_by_one(m, res) ==
    IF res.kind = "Ok" THEN m
    ELSE IF res.kind = "TcpSend" THEN [m EXCEPT !.send_errs = @ + 1]
    ELSE IF res.kind = "TcpDisconnects" THEN [m EXCEPT !.disconnect_errs = @ + 1]
    ELSE IF res.kind = "TxSerializeError" THEN [m EXCEPT !.serialize_errs = @ + 1]
    ELSE IF res.kind = "SenderLockError" THEN [m EXCEPT !.sender_lock_errs = @ + 1]
    ELSE IF res.kind = "ConnLockError" THEN [m EXCEPT !.conn_lock_errs = @ + 1]
    ELSE IF res.kind = "CacheLockError" THEN [m EXCEPT !.cache_lock_errs = @ + 1]
    ELSE [m EXCEPT !.untyped_errs = @ + 1]

\* with_inner, the match on the closure's Result: the counters afterwards
with_inner(m, res) ==
    IF res.kind = "Ok" THEN m
    ELSE IF res.kind = "TcpSend" THEN [m EXCEPT !.send_errs = @ + res.n]
    ELSE IF res.kind = "TcpDisconnects" THEN [m EXCEPT !.disconnect_errs = @ + res.n]
    ELSE IF res.kind = "TxSerializeError" THEN [m EXCEPT !.serialize_errs = @ + 1]
    ELSE IF res.kind = "SenderLockError" THEN [m EXCEPT !.sender_lock_errs = @ + 1]
    ELSE IF res.kind = "ConnLockError" THEN [m EXCEPT !.conn_lock_errs = @ + 1]
    ELSE IF res.kind = "CacheLockError" THEN [m EXCEPT !.cache_lock_errs = @ + 1]
    ELSE [m EXCEPT !.untyped_errs = @ + 1]

\* with_inner: what the host gets back
host_result(res) ==
    IF res.kind = "Ok" \/ res.kind \in KnownKinds THEN "Ok" ELSE "Custom"

\* a callback whose closure ended with res returns through with_inner
Returned(t, res) ==
    /\ metrics' = with_inner(metrics, res)
    /\ ret' = [ret EXCEPT ![t] =
                 [kind |-> res.kind, n |-> res.n, host |-> host_result(res)]]
    /\ classified' = classified
    /\ hpc' = [hpc EXCEPT ![t] = "none"]
    /\ slot' = [slot EXCEPT ![t] = 0]
    /\ acc' = [acc EXCEPT ![t] = [key |-> "", data |-> NoVal]]
    /\ slot_data' = [slot_data EXCEPT ![t] = NoBucket]
    /\ draining' = [draining EXCEPT ![t] = {}]
    /\ expect' = [expect EXCEPT ![t] = [k \in HashKeys |-> {}]]
    /\ handed' = [handed EXCEPT ![t] = <<>>]

\* the errors a closure ends with before it has touched the cache or the
\* sender: update_account's from_account(..)? (a TryFromSliceError, no
\* GeyserError), notify_transaction's serialize_transaction(..)?, and a
\* poisoned RwLock or Mutex at slot_data.write() or buffer.lock()
ClosureErrs == {"Untyped", "TxSerializeError", "CacheLockError", "SenderLockError"}

\* update_account or notify_transaction whose closure returns Err(e) at once
ClosureErr(t, e) ==
    /\ hpc[t] = "none"
    /\ pc[t] = "idle"
    /\ nput < MaxPuts
    /\ nput' = nput + 1
    /\ hpc' = [hpc EXCEPT ![t] = "err"]
    /\ result' = [result EXCEPT ![t] = [kind |-> e, n |-> 0]]
    /\ UNCHANGED <<config, vsender, sized, buffer, subs, pc, batch, attempts, send_errs, disconnects,
                   bidx, npub, staged, drained, cache, bucket, nbucket, slot, acc,
                   slot_data, draining, owed, conc, tainted, expect, handed, metricvars>>

\* with_inner on that Err
ClosureErrReturn(t) ==
    /\ hpc[t] = "err"
    /\ Returned(t, result[t])
    /\ UNCHANGED <<config, vsender, sized, buffer, subs, locals, npub, staged, drained,
                   cache, bucket, nbucket, nput, owed, conc, tainted>>

\* update_account: inner.socket.maybe_flush().  TcpSender::maybe_flush (spec.md
\* section 4.2): under the buffer lock, if the buffer holds records, drain them
\* to a batch and broadcast it once, whatever the threshold
MaybeFlush(t) ==
    /\ hpc[t] = "put_flush"
    /\ pc[t] = "idle"
    /\ ~BufferLocked
    /\ IF buffer.data = <<>>
       THEN /\ result' = [result EXCEPT ![t] = [kind |-> "Ok", n |-> 0]]
            /\ Returned(t, [kind |-> "Ok", n |-> 0])
            /\ UNCHANGED <<buffer, staged, pc, batch, attempts, bidx, drained>>
       ELSE /\ buffer' = flush_data(buffer).buffer
            /\ staged' = <<>>
            /\ result' = [result EXCEPT ![t] = [kind |-> "none", n |-> 0]]
            /\ batch' = [batch EXCEPT ![t] = flush_data(buffer).batch]
            /\ drained' = Append(drained, [batch |-> flush_data(buffer).batch,
                                           recs |-> staged, by |-> t])
            /\ bidx' = [bidx EXCEPT ![t] = Len(drained) + 1]
            /\ attempts' = [attempts EXCEPT ![t] = 1]
            /\ pc' = [pc EXCEPT ![t] = AfterFlush]
            /\ hpc' = [hpc EXCEPT ![t] = "put_ret"]
            /\ UNCHANGED <<slot, acc, slot_data, draining, expect, handed, metricvars>>
    /\ UNCHANGED <<config, vsender, sized, subs, send_errs, disconnects, npub,
                   cache, bucket, nbucket, nput, owed, conc, tainted>>

\* update_account: maybe_flush has returned, and the callback returns
PutReturn(t) ==
    /\ hpc[t] = "put_ret"
    /\ pc[t] = "idle"
    /\ Returned(t, result[t])
    /\ UNCHANGED <<config, vsender, sized, buffer, subs, locals, npub, staged, drained,
                   cache, bucket, nbucket, nput, owed, conc, tainted>>

\* update_slot_status with status = Confirmed: inner.cache.get(&slot) is Some
\* (with None, and with any other status, the callback returns Ok at once)
FlushGet(t, s) ==
    /\ hpc[t] = "none"
    /\ pc[t] = "idle"
    /\ cache[s] # NoBucket
    /\ slot' = [slot EXCEPT ![t] = s]
    /\ slot_data' = [slot_data EXCEPT ![t] = cache[s]]
    /\ hpc' = [hpc EXCEPT ![t] = "flush_lock"]
    /\ expect' = [expect EXCEPT ![t] = owed[s]]
    /\ owed' = [owed EXCEPT ![s] = [k \in HashKeys |-> {}]]
    /\ tainted' = [tainted EXCEPT ![s] =
                     @ \/ \E u \in Threads \ {t} : InPut(u, s) \/ InFlush(u, s)]
    /\ UNCHANGED <<config, vsender, sized, buffer, subs, locals, npub, staged, drained,
                   cache, bucket, nbucket, acc, draining, nput, conc, handed>>
    /\ UNCHANGED metricvars

\* an iteration over the map that removes nothing (hash_map.iter())
iter_cloned(map) ==
    [entries |-> {[key |-> k, data |-> map[k]] : k \in {j \in HashKeys : map[j] # NoVal}},
     map |-> map]

\* HashMap::drain: the entries the iterator is to yield, and the map, which is
\* empty once the iterator is gone
drain(map) ==
    [entries |-> {[key |-> k, data |-> map[k]] : k \in {j \in HashKeys : map[j] # NoVal}},
     map |-> [k \in HashKeys |-> NoVal]]

\* update_slot_status: slot_data.write()? and hash_map.drain().  The entries
\* leave the map as the iterator yields them and the rest when it is dropped;
\* nobody sees the map in between, the write guard being held
FlushLock(t) ==
    /\ hpc[t] = "flush_lock"
    /\ ~BucketLocked(slot_data[t])
    /\ draining' = [draining EXCEPT ![t] = drain(bucket[slot_data[t]]).entries]
    /\ bucket' = [bucket EXCEPT ![slot_data[t]] = drain(bucket[slot_data[t]]).map]
    /\ handed' = [handed EXCEPT ![t] = <<>>]
    /\ hpc' = [hpc EXCEPT ![t] = "drain"]
    /\ UNCHANGED <<config, vsender, sized, buffer, subs, locals, npub, staged, drained,
                   cache, nbucket, slot, acc, slot_data, nput, owed, conc, tainted,
                   expect>>
    /\ UNCHANGED metricvars

\* the previous inner.socket.publish(v)? of the drain loop, if any, returned Ok
DrainGoesOn(t) == handed[t] = <<>> \/ result[t].kind = "Ok"

\* update_slot_status, the drain loop: the iterator yields some entry (a
\* HashMap's order) and its value goes to inner.socket.publish
FlushPublish(t) ==
    /\ hpc[t] = "drain"
    /\ DrainGoesOn(t)
    /\ \E e \in draining[t] :
          /\ publish(t, e.data)
          /\ draining' = [draining EXCEPT ![t] = @ \ {e}]
          /\ handed' = [handed EXCEPT ![t] = Append(@, e)]
    /\ UNCHANGED <<cache, bucket, nbucket, hpc, slot, acc, slot_data, nput, owed, conc,
                   tainted, expect>>
    /\ UNCHANGED metricvars

\* update_slot_status: the drain loop is over; inner.cache.invalidate(&slot),
\* the guard is dropped and the callback returns
FlushDone(t) ==
    /\ hpc[t] = "drain"
    /\ pc[t] = "idle"
    /\ DrainGoesOn(t)
    /\ draining[t] = {}
    /\ cache' = [cache EXCEPT ![slot[t]] = NoBucket]
    /\ Returned(t, [kind |-> "Ok", n |-> 0])
    /\ UNCHANGED <<config, vsender, sized, buffer, subs, locals, npub, staged, drained,
                   bucket, nbucket, nput, owed, conc, tainted>>

\* update_slot_status: inner.socket.publish(v)? returned an error: the closure
\* returns it, the Drain iterator is dropped with the entries it has not
\* yielded, the guard is dropped, the slot stays in the cache
FlushFail(t) ==
    /\ hpc[t] = "drain"
    /\ pc[t] = "idle"
    /\ ~DrainGoesOn(t)
    /\ Returned(t, result[t])
    /\ UNCHANGED <<config, vsender, sized, buffer, subs, locals, npub, staged, drained,
                   cache, bucket, nbucket, nput, owed, conc, tainted>>

\* update_slot_status where the closure returns Ok at once: a status other
\* than Confirmed, or no bucket in the cache for the slot
update_slot_status_skip(t, s, status) ==
    /\ hpc[t] = "none"
    /\ pc[t] = "idle"
    /\ status # "Confirmed" \/ cache[s] = NoBucket
    /\ Returned(t, [kind |-> "Ok", n |-> 0])
    /\ UNCHANGED <<config, vsender, sized, buffer, subs, locals, npub, staged, drained,
                   cache, bucket, nbucket, nput, owed, conc, tainted>>

\* update_slot_status, from the call to the drain or to the early return
update_slot_status(t, s, status) ==
    IF status = "Confirmed" /\ cache[s] # NoBucket
    THEN FlushGet(t, s)
    ELSE update_slot_status_skip(t, s, status)

\* serialize_transaction: kind tag 2, then the body
serialize_transaction(sig) == <<BYTE_PREFIX_TX, 1>>

\* a vote filter that lets every transaction through
skips_vote_never(skip, is_vote) == FALSE

\* notify_transaction: inner.config.skip_vote_txs && tx_update.is_vote
skips_vote(skip, is_vote) == skip /\ is_vote

\* notify_transaction, the three early returns
tx_filtered(tx) ==
    \/ skips_vote(skip_vote_txs, tx.is_vote)
    \/ skip_deploy_txs /\ tx.is_deploy
    \/ ~tx.is_nft

\* the transactions the host notifies: signature and what from_transaction,
\* is_deploy_tx and is_nft_transaction find in them
Transactions ==
    [signature : TxKeys, is_vote : BOOLEAN, is_deploy : BOOLEAN, is_nft : BOOLEAN]

\* program ids: solana_sdk::bpf_loader::id(), bpf_loader_upgradeable::id(), and
\* any other program
Programs == {"bpf_loader", "bpf_loader_upgradeable", "other"}

\* compiled instructions: the program account_keys[program_id_index] and data
Instructions == [program_id : Programs, data : {<<>>, <<0>>, <<1>>, <<2>>, <<1, 0>>}]

\* transaction.message().instructions(): none, one, or two instructions
Messages ==
    {<<>>} \cup {<<i>> : i \in Instructions}
           \cup {<<i, j>> : i \in Instructions,
                            j \in {k \in Instructions : k.data \in {<<>>, <<0>>}}}

\* a deploy test that takes either first byte for either loader
is_deploy_tx_either_byte(instructions) ==
    IF Len(instructions) # 1 THEN FALSE
    ELSE LET instruction == instructions[1]
         IN  IF instruction.data = <<>> THEN FALSE
             ELSE IF instruction.program_id \in {"bpf_loader", "bpf_loader_upgradeable"}
             THEN instruction.data[1] \in {BPF_LOADER_WRITE_INSTRUCTION_FIRST_BYTE,
                                           BPF_UPGRADEABLE_LOADER_WRITE_INSTRUCTION_FIRST_BYTE}
             ELSE FALSE

\* TransactionUpdate::is_deploy_tx
is_deploy_tx(instructions) ==
    IF Len(instructions) # 1 THEN FALSE
    ELSE LET instruction == instructions[1]
         IN  IF instruction.data = <<>> THEN FALSE
             ELSE IF instruction.program_id = "bpf_loader"
             THEN instruction.data[1] = BPF_LOADER_WRITE_INSTRUCTION_FIRST_BYTE
             ELSE IF instruction.program_id = "bpf_loader_upgradeable"
             THEN instruction.data[1] = BPF_UPGRADEABLE_LOADER_WRITE_INSTRUCTION_FIRST_BYTE
             ELSE FALSE

\* TransactionUpdate::from_transaction on a transaction that is no vote and
\* names an NFT program, with these instructions: the signature and what the
\* three filters of notify_transaction find
from_transaction(sig, instructions) ==
    [signature |-> sig, is_vote |-> FALSE,
     is_deploy |-> is_deploy_tx(instructions), is_nft |-> TRUE]

\* notify_transaction up to cache.get: a filtered transaction returns Ok at
\* once; any other is serialized and goes the way of an account update, under
\* HashKey::Tx(signature) (a failing serialize_transaction is ClosureErr)
notify_transaction(t, tx, s) ==
    IF tx_filtered(tx)
    THEN /\ hpc[t] = "none"
         /\ pc[t] = "idle"
         /\ nput < MaxPuts
         /\ nput' = nput + 1
         /\ Returned(t, [kind |-> "Ok", n |-> 0])
         /\ UNCHANGED <<config, vsender, sized, buffer, subs, locals, npub, staged, drained,
                        cache, bucket, nbucket, owed, conc, tainted>>
    ELSE PutGet(t, s, tx.signature, serialize_transaction(tx.signature))

Next ==
    \/ \E t \in Threads, msg \in Records : Publish(t, msg)
    \/ \E t \in Threads : Retry(t)
    \/ \E t \in Threads : WaitMinSubscribers(t)
    \/ \E t \in Threads : PublishBatch(t)
    \/ Accept
    \/ \E id \in ConnIds : WriterWrite(id)
    \/ \E id \in ConnIds : WriterWriteErr(id)
    \/ \E id \in ConnIds : RemoveConn(id)

Spec == Init /\ [][Next]_vars

\* Scenario "strict delivery" (spec.md section 8, scenario 5): strict_delivery,
\* queue capacity 1, one subscriber connected from the start whose writer keeps
\* dequeuing and whose socket never fails; no other connection is made
InitStrict ==
    /\ batch_max_bytes \in BatchMaxChoices
    /\ strict_delivery = TRUE
    /\ min_subscribers = 0
    /\ buffer_size = 1
    /\ binds = OnLoadBinds
    /\ conns = {1}
    /\ chan = [id \in ConnIds |-> [queue |-> <<>>, rx |-> id = 1]]
    /\ writer = [id \in ConnIds |-> IF id = 1 THEN "recv" ELSE "none"]
    /\ wire = [id \in ConnIds |-> <<>>]
    /\ got = [id \in ConnIds |-> <<>>]
    /\ InitPublishers
    /\ InitHook
    /\ NoTxFilters

NextStrict ==
    \/ \E t \in Threads, msg \in Records : Publish(t, msg)
    \/ \E t \in Threads : Retry(t)
    \/ \E t \in Threads : PublishBatch(t)
    \/ WriterWrite(1)

SpecStrict == InitStrict /\ [][NextStrict]_vars

\* The min-subscribers gate: min_subscribers = 2, non-strict.  The polling
\* loop, the broadcast and the writer threads are scheduled fairly; the host's
\* publish calls, the connections and the socket errors are the environment's
InitGate ==
    /\ batch_max_bytes \in BatchMaxChoices
    /\ strict_delivery = FALSE
    /\ min_subscribers = 2
    /\ buffer_size = 1
    /\ InitNoConns
    /\ InitPublishers
    /\ InitHook
    /\ NoTxFilters

NextGate ==
    \/ \E t \in Threads, msg \in Records : Publish(t, msg)
    \/ \E t \in Threads : WaitMinSubscribers(t)
    \/ \E t \in Threads : PublishBatch(t)
    \/ Accept
    \/ \E id \in ConnIds : WriterWrite(id)
    \/ \E id \in ConnIds : WriterWriteErr(id)
    \/ \E id \in ConnIds : RemoveConn(id)

SpecGate ==
    /\ InitGate
    /\ [][NextGate]_vars
    /\ \A t \in Threads : WF_vars(WaitMinSubscribers(t))
    /\ \A t \in Threads : WF_vars(PublishBatch(t))
    /\ \A id \in ConnIds : WF_vars(WriterWrite(id))
    /\ \A id \in ConnIds : WF_vars(RemoveConn(id))

\* The plugin hook between two heartbeats: account updates go to the slot
\* cache and a Confirmed slot status flushes the slot to the sender;
\* non-strict delivery, no gate, one subscriber at most
InitCache ==
    /\ batch_max_bytes \in BatchMaxChoices
    /\ strict_delivery = FALSE
    /\ min_subscribers = 0
    /\ buffer_size = 1
    /\ InitNoConns
    /\ InitPublishers
    /\ InitHook
    /\ NoTxFilters

NextCache ==
    \/ \E t \in Threads, s \in Slots, k \in Keys, v \in Vals : PutGet(t, s, k, v)
    \/ \E t \in Threads : PutInsert(t)
    \/ \E t \in Threads : PutCacheInsert(t)
    \/ \E t \in Threads : MaybeFlush(t)
    \/ \E t \in Threads : PutReturn(t)
    \/ \E t \in Threads, s \in Slots : FlushGet(t, s)
    \/ \E t \in Threads : FlushLock(t)
    \/ \E t \in Threads : FlushPublish(t)
    \/ \E t \in Threads : FlushDone(t)
    \/ \E t \in Threads : FlushFail(t)
    \/ \E t \in Threads : PublishBatch(t)
    \/ Accept /\ conns = {}
    \/ \E id \in ConnIds : WriterWrite(id)

SpecCache == InitCache /\ [][NextCache]_vars

\* The plugin with its heartbeat: one host thread makes the callbacks, the
\* other thread is the heartbeat thread; non-strict delivery, no gate
Host == "h1"

HeartbeatThread == "h2"

NextBeat ==
    \/ \E s \in Slots, k \in Keys, v \in Vals : PutGet(Host, s, k, v)
    \/ PutInsert(Host)
    \/ PutCacheInsert(Host)
    \/ MaybeFlush(Host)
    \/ PutReturn(Host)
    \/ \E s \in Slots : FlushGet(Host, s)
    \/ FlushLock(Host)
    \/ FlushPublish(Host)
    \/ FlushDone(Host)
    \/ FlushFail(Host)
    \/ \E e \in ClosureErrs : ClosureErr(Host, e)
    \/ ClosureErrReturn(Host)
    \/ Heartbeat(HeartbeatThread)
    \/ \E t \in Threads : PublishBatch(t)
    \/ Accept
    \/ \E id \in ConnIds : WriterWrite(id)
    \/ \E id \in ConnIds : WriterWriteErr(id)
    \/ \E id \in ConnIds : RemoveConn(id)

SpecBeat == InitCache /\ [][NextBeat]_vars

\* Non-strict delivery without a gate: the host threads call publish, and a
\* thread inside publish keeps running; when subscribers connect, whether their
\* writers dequeue and whether their sockets fail is left open
InitNoWait ==
    /\ batch_max_bytes \in BatchMaxChoices
    /\ strict_delivery = FALSE
    /\ min_subscribers = 0
    /\ buffer_size = 1
    /\ InitNoConns
    /\ InitPublishers
    /\ InitHook
    /\ NoTxFilters

NextNoWait ==
    \/ \E t \in Threads, msg \in Records : Publish(t, msg)
    \/ \E t \in Threads : PublishBatch(t)
    \/ Accept
    \/ \E id \in ConnIds : WriterWrite(id)
    \/ \E id \in ConnIds : WriterWriteErr(id)
    \/ \E id \in ConnIds : RemoveConn(id)

SpecNoWait ==
    /\ InitNoWait
    /\ [][NextNoWait]_vars
    /\ \A t \in Threads : WF_vars(PublishBatch(t))

\* Scenario "backpressure drop" (spec.md section 8): non-strict, no gate, one
\* subscriber connected from the start that never reads and never closes; its
\* writer thread still takes batches off the queue and write_all puts them in
\* the socket's send buffer
InitDrop ==
    /\ batch_max_bytes \in BatchMaxChoices
    /\ strict_delivery = FALSE
    /\ min_subscribers = 0
    /\ buffer_size \in BufferSizeChoices
    /\ binds = OnLoadBinds
    /\ conns = {1}
    /\ chan = [id \in ConnIds |-> [queue |-> <<>>, rx |-> id = 1]]
    /\ writer = [id \in ConnIds |-> IF id = 1 THEN "recv" ELSE "none"]
    /\ wire = [id \in ConnIds |-> <<>>]
    /\ got = [id \in ConnIds |-> <<>>]
    /\ InitPublishers
    /\ InitHook
    /\ NoTxFilters

NextDrop ==
    \/ \E t \in Threads, msg \in Records : Publish(t, msg)
    \/ \E t \in Threads : PublishBatch(t)
    \/ WriterWrite(1)

SpecDrop == InitDrop /\ [][NextDrop]_vars

\* Scenario "disconnect reaping" (spec.md section 8): non-strict, no gate;
\* subscribers connect and may close their socket at any time
NextReap ==
    \/ \E t \in Threads, msg \in Records : Publish(t, msg)
    \/ \E t \in Threads : PublishBatch(t)
    \/ Accept
    \/ \E id \in ConnIds : PeerClose(id)
    \/ \E id \in ConnIds : WriterWrite(id)
    \/ \E id \in ConnIds : WriterWriteErr(id)
    \/ \E id \in ConnIds : RemoveConn(id)

SpecReap == InitNoWait /\ [][NextReap]_vars

\* Scenario "basic fan-out" (spec.md section 8): non-strict, no gate, a
\* threshold that every framed record reaches, a queue with room for every
\* batch, one subscriber connected from the start whose socket never fails
InitFanOut ==
    /\ batch_max_bytes \in {HEADER_BYTE_SIZE, HEADER_BYTE_SIZE + 1}
    /\ strict_delivery = FALSE
    /\ min_subscribers = 0
    /\ buffer_size = MaxPublish
    /\ binds = OnLoadBinds
    /\ conns = {1}
    /\ chan = [id \in ConnIds |-> [queue |-> <<>>, rx |-> id = 1]]
    /\ writer = [id \in ConnIds |-> IF id = 1 THEN "recv" ELSE "none"]
    /\ wire = [id \in ConnIds |-> <<>>]
    /\ got = [id \in ConnIds |-> <<>>]
    /\ InitPublishers
    /\ InitHook
    /\ NoTxFilters

NextFanOut ==
    \/ \E t \in Threads, msg \in Records : Publish(t, msg)
    \/ \E t \in Threads : PublishBatch(t)
    \/ WriterWrite(1)

SpecFanOut == InitFanOut /\ [][NextFanOut]_vars

\* The callbacks of one host thread: account updates, transactions and slot
\* statuses; non-strict delivery, no gate, either setting of the two
\* transaction filters
InitHost ==
    /\ batch_max_bytes \in BatchMaxChoices
    /\ strict_delivery = FALSE
    /\ min_subscribers = 0
    /\ buffer_size = 1
    /\ skip_vote_txs \in BOOLEAN
    /\ skip_deploy_txs \in BOOLEAN
    /\ InitNoConns
    /\ InitPublishers
    /\ InitHook

NextHost ==
    \/ \E s \in Slots, k \in Keys, v \in Vals : PutGet(Host, s, k, v)
    \/ \E tx \in Transactions, s \in Slots : notify_transaction(Host, tx, s)
    \/ \E e \in ClosureErrs : ClosureErr(Host, e)
    \/ ClosureErrReturn(Host)
    \/ PutInsert(Host)
    \/ PutCacheInsert(Host)
    \/ MaybeFlush(Host)
    \/ PutReturn(Host)
    \/ \E s \in Slots, status \in Statuses : update_slot_status(Host, s, status)
    \/ FlushLock(Host)
    \/ FlushPublish(Host)
    \/ FlushDone(Host)
    \/ FlushFail(Host)
    \/ PublishBatch(Host)
    \/ Accept
    \/ \E id \in ConnIds : WriterWrite(id)

SpecHost == InitHost /\ [][NextHost]_vars

\* ------------------------------------------------------ the deploy filter
\* on_load with skip_deploy_txs = true (and skip_vote_txs = false)
InitDeploy ==
    /\ batch_max_bytes \in BatchMaxChoices
    /\ strict_delivery = FALSE
    /\ min_subscribers = 0
    /\ buffer_size = 1
    /\ skip_vote_txs = FALSE
    /\ skip_deploy_txs = TRUE
    /\ InitNoConns
    /\ InitPublishers
    /\ InitHook

\* host threads in notify_transaction, with transactions of every message
NextDeploy ==
    \/ \E t \in Threads, sig \in TxKeys, m \in Messages, s \in Slots :
          notify_transaction(t, from_transaction(sig, m), s)
    \/ \E t \in Threads : PutInsert(t)
    \/ \E t \in Threads : PutCacheInsert(t)
    \/ \E t \in Threads : MaybeFlush(t)

SpecDeploy == InitDeploy /\ [][NextDeploy]_vars

\* Two host threads in the middle of a slot: thread Host has completed
\* update_account(A, <<0, 1>>) for the slot, which found no bucket and left
\* bucket 1 in the cache; the other thread is inside update_account(B, ..),
\* its cache.get having found no bucket either (it ran before Host's
\* cache.insert), so it holds the new bucket 2.  From here on both threads
\* make further callbacks; no subscriber connects.
InitStale ==
    /\ batch_max_bytes \in BatchMaxChoices
    /\ strict_delivery = FALSE
    /\ min_subscribers = 0
    /\ buffer_size = 1
    /\ NoTxFilters
    /\ InitNoConns
    /\ InitPublishers
    /\ \E s \in Slots, v \in {<<0, 1>>}, w \in {<<0, 1>>} :
          /\ cache = [r \in Slots |-> IF r = s THEN 1 ELSE NoBucket]
          /\ bucket = [b \in BucketIds |->
                          [k \in HashKeys |-> IF b = 1 /\ k = "A" THEN v ELSE NoVal]]
          /\ nbucket = 2
          /\ hpc = [t \in Threads |-> IF t = Host THEN "none" ELSE "put_insert"]
          /\ slot = [t \in Threads |-> IF t = Host THEN 0 ELSE s]
          /\ acc = [t \in Threads |-> IF t = Host THEN [key |-> "", data |-> NoVal]
                                       ELSE [key |-> "B", data |-> w]]
          /\ slot_data = [t \in Threads |-> IF t = Host THEN NoBucket ELSE 2]
          /\ owed = [r \in Slots |->
                        [k \in HashKeys |-> IF r = s /\ k = "A" THEN {v} ELSE {}]]
    /\ draining = [t \in Threads |-> {}]
    /\ nput = 0
    /\ conc = [t \in Threads |-> FALSE]
    /\ tainted = [s \in Slots |-> FALSE]
    /\ expect = [t \in Threads |-> [k \in HashKeys |-> {}]]
    /\ handed = [t \in Threads |-> <<>>]
    /\ metrics = [send_errs |-> 0, disconnect_errs |-> 0, serialize_errs |-> 0,
                  sender_lock_errs |-> 0, conn_lock_errs |-> 0, cache_lock_errs |-> 0,
                  untyped_errs |-> 0]
    /\ ret = [t \in Threads |-> IF t = Host THEN [kind |-> "Ok", n |-> 0, host |-> "Ok"]
                                 ELSE [kind |-> "none", n |-> 0, host |-> "none"]]
    /\ classified = [full |-> 0, closed |-> 0]

NextStale ==
    \/ \E t \in Threads, s \in Slots, k \in Keys, v \in Vals : PutGet(t, s, k, v)
    \/ \E t \in Threads : PutInsert(t)
    \/ \E t \in Threads : PutCacheInsert(t)
    \/ \E t \in Threads : MaybeFlush(t)
    \/ \E t \in Threads : PutReturn(t)
    \/ \E t \in Threads, s \in Slots : FlushGet(t, s)
    \/ \E t \in Threads : FlushLock(t)
    \/ \E t \in Threads : FlushPublish(t)
    \/ \E t \in Threads : FlushDone(t)
    \/ \E t \in Threads : PublishBatch(t)

SpecStale == InitStale /\ [][NextStale]_vars

\* ------------------------------------------------- further calls of bind
\* the loaded plugin's TcpSender (no gate, regular mode), on which bind is
\* called again while subscribers connect and batches are broadcast
NextBind ==
    \/ \E port \in Ports : bind(port)
    \/ Accept
    \/ \E t \in Threads, msg \in Records : Publish(t, msg)
    \/ \E t \in Threads : PublishBatch(t)
    \/ \E id \in ConnIds : WriterWrite(id)

SpecBind == InitNoWait /\ [][NextBind]_vars

\* ------------------------------------------ batches on their way out
\* publish calls of two threads in either delivery mode, with no gate, and
\* subscribers that are accepted and written to and never fail
InitFrames ==
    /\ batch_max_bytes \in BatchMaxChoices
    /\ strict_delivery \in BOOLEAN
    /\ min_subscribers = 0
    /\ buffer_size \in BufferSizeChoices
    /\ InitNoConns
    /\ InitPublishers
    /\ InitHook
    /\ NoTxFilters

NextFrames ==
    \/ \E t \in Threads, msg \in Records : Publish(t, msg)
    \/ \E t \in Threads : Retry(t)
    \/ \E t \in Threads : PublishBatch(t)
    \/ Accept
    \/ \E id \in ConnIds : WriterWrite(id)

SpecFrames == InitFrames /\ [][NextFrames]_vars

\* ------------------------------------------ writer threads that go on
\* the sender with no gate, where a writer thread that has left its loop is
\* scheduled again (it runs remove_conn and ends)
SpecExit ==
    /\ InitNoWait
    /\ [][NextNoWait]_vars
    /\ \A id \in ConnIds : WF_vars(RemoveConn(id))

\* ----------------------------------- publish_batch of the vector sender
\* threads that call the public publish_batch of src/src/sender.rs while the
\* accept loop adds connections and writer threads fail
NextVec ==
    \/ VecAccept
    \/ \E id \in ConnIds : VecWriterErr(id)
    \/ \E t \in Threads : VecScan(t)
    \/ \E t \in Threads : VecRemove(t)

SpecVec == InitNoWait /\ [][NextVec]_vars

\* --------------------------------------------------- puts and no flush
\* host threads in update_account, before any Confirmed status arrives (the
\* TcpBuffer stays empty, so maybe_flush has nothing to broadcast)
NextRace ==
    \/ \E t \in Threads, s \in Slots, k \in Keys, v \in Vals : PutGet(t, s, k, v)
    \/ \E t \in Threads : PutInsert(t)
    \/ \E t \in Threads : PutCacheInsert(t)
    \/ \E t \in Threads : MaybeFlush(t)

SpecRace == InitCache /\ [][NextRace]_vars

\* -------------------------------------- puts of values that all differ
\* host threads in update_account and in update_slot_status(Confirmed), every
\* put with a record of its own (the nput-th put carries <<0, nput>>); no
\* subscriber, so no publish fails
NextOnce ==
    \/ \E t \in Threads, s \in Slots, k \in Keys : PutGet(t, s, k, <<0, nput + 1>>)
    \/ \E t \in Threads : PutInsert(t)
    \/ \E t \in Threads : PutCacheInsert(t)
    \/ \E t \in Threads : MaybeFlush(t)
    \/ \E t \in Threads : PutReturn(t)
    \/ \E t \in Threads, s \in Slots : FlushGet(t, s)
    \/ \E t \in Threads : FlushLock(t)
    \/ \E t \in Threads : FlushPublish(t)
    \/ \E t \in Threads : FlushDone(t)
    \/ \E t \in Threads : PublishBatch(t)

SpecOnce == InitCache /\ [][NextOnce]_vars

\* ------------------------------------------------- callbacks of two slots
\* on_load with min_subscribers = 2 and a threshold every cached record
\* reaches; no subscriber yet
InitSlots ==
    /\ batch_max_bytes = HEADER_BYTE_SIZE + 2
    /\ strict_delivery = FALSE
    /\ min_subscribers = 2
    /\ buffer_size \in BufferSizeChoices
    /\ InitNoConns
    /\ InitPublishers
    /\ InitHookOn(TwoSlots)
    /\ NoTxFilters

\* host threads in update_account and update_slot_status(Confirmed) for two
\* different slots, while subscribers connect (every publish drains the
\* TcpBuffer, so maybe_flush finds it empty)
NextSlots ==
    \/ \E t \in Threads, s \in TwoSlots, v \in Vals : PutGet(t, s, "A", v)
    \/ \E t \in Threads : PutInsert(t)
    \/ \E t \in Threads : PutCacheInsert(t)
    \/ \E t \in Threads : MaybeFlush(t)
    \/ \E t \in Threads, s \in TwoSlots : FlushGet(t, s)
    \/ \E t \in Threads : FlushLock(t)
    \/ \E t \in Threads : FlushPublish(t)
    \/ \E t \in Threads : FlushDone(t)
    \/ \E t \in Threads : WaitMinSubscribers(t)
    \/ \E t \in Threads : PublishBatch(t)
    \/ Accept

SpecSlots == InitSlots /\ [][NextSlots]_vars

\* ------------------------------------------------------ the three locks
\* thread t is at slot_data.write() of a put or of a flush
WantsBucket(t) == hpc[t] \in {"put_insert", "flush_lock"}

\* thread t is at buffer.lock(): maybe_flush of a put, or the next publish of
\* a drain loop
WantsBuffer(t) ==
    /\ pc[t] = "idle"
    /\ \/ hpc[t] = "put_flush"
       \/ hpc[t] = "drain" /\ draining[t] # {} /\ DrainGoesOn(t)

\* thread t is at conns.read()
WantsConnsRead(t) == pc[t] \in {"gate", "bcast"}

\* the accept thread (for the next connection) or the writer thread of id is
\* at conns.write()
WantsConnsWrite(id) ==
    \/ writer[id] = "exiting"
    \/ writer[id] = "none" /\ \A j \in ConnIds : j < id => writer[j] # "none"

\* host thread t waits for a lock that host thread u holds
HostWaitsHost(t, u) ==
    \/ WantsBucket(t) /\ HoldsBucket(u, slot_data[t])
    \/ WantsBuffer(t) /\ HoldsBuffer(u)

\* host thread t waits for the conns lock that the thread of connection id holds
HostWaitsConn(t, id) == WantsConnsRead(t) /\ id \in ConnsWriters

\* the thread of connection id waits for the conns lock that host thread u holds
ConnWaitsHost(id, u) == WantsConnsWrite(id) /\ u \in ConnsReaders

\* the thread of connection id waits for the conns lock that the thread of j holds
ConnWaitsConn(id, j) == WantsConnsWrite(id) /\ j \in ConnsWriters

\* the plugin at the level of its locks: one host thread makes cache puts, both
\* make Confirmed flushes, the second one also publishes as the heartbeat
\* thread does; a subscriber is accepted, gated on (min_subscribers = 1) and
\* broadcast to, and removed by its writer thread after a failed write
InitLocks ==
    /\ batch_max_bytes = HEADER_BYTE_SIZE + 2
    /\ strict_delivery = FALSE
    /\ min_subscribers = 1
    /\ buffer_size = 1
    /\ InitNoConns
    /\ InitPublishers
    /\ InitHook
    /\ NoTxFilters

NextLocks ==
    \/ \E s \in Slots : PutGet(Host, s, "A", <<0, 1>>)
    \/ \E t \in Threads : PutInsert(t)
    \/ \E t \in Threads : PutCacheInsert(t)
    \/ \E t \in Threads : MaybeFlush(t)
    \/ \E t \in Threads, s \in Slots : FlushGet(t, s)
    \/ \E t \in Threads : FlushLock(t)
    \/ \E t \in Threads : FlushPublish(t)
    \/ \E t \in Threads : FlushDone(t)
    \/ \E t \in Threads : FlushFail(t)
    \/ Heartbeat(HeartbeatThread)
    \/ \E t \in Threads : ConnsRead(t)
    \/ \E t \in Threads : GateLocked(t)
    \/ \E t \in Threads : BroadcastLocked(t)
    \/ AddConnLock(1)
    \/ AddConn(1)
    \/ WriterWriteErr(1)
    \/ RemoveConnLock(1)
    \/ RemoveConnLocked(1)

SpecLocks == InitLocks /\ [][NextLocks]_vars

\* ------------------------------------------------ framing of long records
\* the TcpBuffer alone, given messages of lengths up to and beyond 2^32
NextSized ==
    \/ \E msg_len \in Lengths : AppendSized(msg_len)
    \/ FlushSized

SpecSized == InitNoWait /\ [][NextSized]_vars

\* ----------------------------------------------------------------- claims
\* the raw records of a history entry
Msgs(recs) == [i \in 1..Len(recs) |-> recs[i].msg]

\* C1: when a Confirmed flush of a slot ends, and no other callback for the
\* slot has overlapped a flush, the flush has handed to the sender exactly one
\* record for every key put for the slot since the flush before it and none
\* for any other key, and the record handed for a key holds the last value put
\* for it (one of the last values, where puts of the key overlapped).
C1_Coalescing ==
    [][\A t \in Threads :
         (hpc[t] = "drain" /\ hpc'[t] = "none" /\ ~tainted[slot[t]]) =>
             \A k \in Keys :
                 LET idx == {i \in 1..Len(handed[t]) : handed[t][i].key = k}
                 IN  IF expect[t][k] = {}
                     THEN idx = {}
                     ELSE /\ Cardinality(idx) = 1
                          /\ \A i \in idx : handed[t][i].data \in expect[t][k]]_vars

\* the batch drained at the first attempt of the publish call t is in
FirstBatch(t) == drained[bidx[t] - attempts[t] + 1].batch

\* C2: with strict_delivery, every retry attempt of a publish call broadcasts
\* the batch that the call drained at its first attempt, byte for byte.
C2_RetrySameBatch ==
    [][\A t \in Threads :
         (strict_delivery /\ pc[t] = "sleep" /\ pc'[t] # "sleep")
             => batch'[t] = FirstBatch(t)]_vars

\* C3: with strict_delivery, capacity 1 and one subscriber that keeps
\* dequeuing, no batch is lost: once the publish calls made so far have
\* returned, every batch they drained has been enqueued for the subscriber.
C3_NoBatchLost ==
    ~BufferLocked =>
        \A i \in 1..Len(drained) : \E j \in 1..Len(got[1]) : got[1][j].idx = i

\* C4: with min_subscribers = k > 0, no broadcast does a try_send while the
\* subscriber set holds fewer than k entries.
C4_NoSendBelowGate ==
    [][\A t \in Threads :
         (min_subscribers > 0 /\ pc[t] = "bcast" /\ pc'[t] # "bcast" /\ conns # {})
             => Cardinality(conns) >= min_subscribers]_vars

\* C5 (as amended): a publish_batch call waiting at the gate proceeds to its
\* broadcast if the subscriber set eventually holds at least min_subscribers
\* entries for good.
C5_GateLiveness ==
    \A t \in Threads :
        <>[](Cardinality(conns) >= min_subscribers)
            => ((pc[t] = "gate") ~> (pc[t] = "bcast"))

\* C5 (as stated): a call waits forever only if the set never reaches
\* min_subscribers, that is, a call at the gate while the set holds at least
\* min_subscribers entries proceeds to its broadcast.
C5_ReachingSuffices ==
    \A t \in Threads :
        (pc[t] = "gate" /\ Cardinality(conns) >= min_subscribers) ~> (pc[t] = "bcast")

\* C5 witness: a call is at the gate of a sender with min_subscribers = 2 while
\* both subscribers are connected and one batch has already gone through
C5_Witness ==
    \E t \in Threads :
        /\ pc[t] = "gate"
        /\ Cardinality(conns) >= min_subscribers
        /\ Len(drained) = 2

\* C6: a publish call that leaves total_bytesize below batch_max_bytes drains
\* nothing, stages its framed record and returns Ok; a call that reaches
\* batch_max_bytes drains the buffer in the same call, and has drained and
\* broadcast exactly one batch when it returns.
C6_ThresholdOneBatch ==
    [][/\ (npub' = npub + 1 /\ Len(drained') = Len(drained))
            => /\ buffer'.total_bytesize < batch_max_bytes
               /\ Len(buffer'.data) = Len(buffer.data) + 1
               /\ buffer'.total_bytesize =
                      buffer.total_bytesize + Len(buffer'.data[Len(buffer'.data)])
               /\ \E t \in Threads :
                      pc[t] = "idle" /\ pc' = pc /\ result'[t].kind = "Ok"
       /\ (npub' = npub + 1 /\ Len(drained') # Len(drained))
            => /\ Len(drained') = Len(drained) + 1
               /\ Len(drained'[Len(drained')].batch) - HEADER_BYTE_SIZE >= batch_max_bytes
               /\ buffer'.data = <<>>
       /\ \A t \in Threads :
              (pc[t] = "bcast" /\ pc'[t] = "idle") => attempts[t] = 1]_vars

\* whole framed records and nothing else
RECURSIVE WholeFrames(_)
WholeFrames(body) ==
    \/ body = <<>>
    \/ /\ Len(body) >= HEADER_BYTE_SIZE
       /\ LET n == from_le_bytes(SubSeq(body, 1, HEADER_BYTE_SIZE))
          IN  /\ Len(body) >= HEADER_BYTE_SIZE + n
              /\ WholeFrames(SubSeq(body, HEADER_BYTE_SIZE + n + 1, Len(body)))

RECURSIVE FrameCount(_)
FrameCount(body) ==
    IF Len(body) < HEADER_BYTE_SIZE THEN 0
    ELSE 1 + FrameCount(SubSeq(body,
                 HEADER_BYTE_SIZE + from_le_bytes(SubSeq(body, 1, HEADER_BYTE_SIZE)) + 1,
                 Len(body)))

WellFormedBatch(b) ==
    /\ Len(b) >= HEADER_BYTE_SIZE
    /\ from_le_bytes(SubSeq(b, 1, HEADER_BYTE_SIZE)) = Len(b) - HEADER_BYTE_SIZE
    /\ WholeFrames(SubSeq(b, HEADER_BYTE_SIZE + 1, Len(b)))

\* every batch that exists anywhere: drained, in flight, queued, on a socket
EmittedBatches ==
    {drained[i].batch : i \in 1..Len(drained)}
        \cup {batch[t] : t \in {u \in Threads : HoldsBuffer(u)}}
        \cup UNION {{chan[id].queue[i] : i \in 1..Len(chan[id].queue)} : id \in ConnIds}
        \cup UNION {{wire[id][i] : i \in 1..Len(wire[id])} : id \in ConnIds}

\* C7: every emitted batch is a 4-byte little-endian total_len followed only by
\* whole framed records whose summed size is total_len, and each batch holds as
\* many whole frames as records were staged when it was drained (no record is
\* split across batches).
C7_AtomicBatch ==
    /\ \A b \in EmittedBatches : WellFormedBatch(b)
    /\ \A i \in 1..Len(drained) :
           FrameCount(SubSeq(drained[i].batch, HEADER_BYTE_SIZE + 1,
                             Len(drained[i].batch))) = Len(drained[i].recs)

\* C7 witness: a batch of two framed records of different sizes was drained
\* while the other host thread had published one of them
C7_Witness ==
    \E i \in 1..Len(drained) :
        /\ Len(drained[i].recs) = 2
        /\ Len(drained[i].recs[1].msg) # Len(drained[i].recs[2].msg)
        /\ drained[i].recs[1].by # drained[i].recs[2].by

\* C8: framing round trip: read_response on a drained batch hands the callback
\* exactly the records that were appended, in order, byte for byte.
C8_RoundTrip ==
    \A i \in 1..Len(drained) : read_response(drained[i].batch) = Msgs(drained[i].recs)

\* C8 witness: a batch of two different records was drained and written to a
\* subscriber's socket
C8_Witness ==
    \E i \in 1..Len(drained), id \in ConnIds :
        /\ Len(drained[i].recs) = 2
        /\ drained[i].recs[1].msg # drained[i].recs[2].msg
        /\ \E j \in 1..Len(wire[id]) : wire[id][j] = drained[i].batch

\* C9: in each broadcast of a batch B, every subscriber in the set either gets
\* B itself appended to its queue or keeps its queue and is counted, as Full
\* when its receiver is alive and as Closed when it is not; one failed send
\* does not stop the sends to the others.
C9_BroadcastUniform ==
    [][\A t \in Threads :
         (pc[t] = "bcast" /\ pc'[t] # "bcast") =>
             LET kept == {id \in conns : chan'[id].queue = chan[id].queue}
             IN  /\ \A id \in conns \ kept :
                        chan'[id].queue = Append(chan[id].queue, batch[t])
                 /\ \A id \in conns \ kept : chan[id].rx /\ Len(chan[id].queue) < buffer_size
                 /\ \A id \in kept : ~chan[id].rx \/ Len(chan[id].queue) >= buffer_size
                 /\ send_errs'[t] = Cardinality({id \in kept : chan[id].rx})
                 /\ disconnects'[t] = Cardinality({id \in kept : ~chan[id].rx})]_vars

\* C9 witness: a broadcast over two subscribers has just found one closed (or
\* full) and has still enqueued the batch for the other
C9_Witness ==
    \E t \in Threads, a, b \in ConnIds :
        /\ {a, b} \subseteq conns
        /\ a < b
        /\ send_errs[t] + disconnects[t] = 1
        /\ chan[b].queue # <<>>
        /\ (~chan[a].rx \/ Len(chan[a].queue) >= buffer_size)
        /\ got[b] # <<>> /\ got[b][Len(got[b])].idx = Len(drained)
        /\ \A j \in 1..Len(got[a]) : got[a][j].idx # Len(drained)

\* C10: the batches enqueued for a subscriber are, in order, a subsequence of
\* the batches in the order flush_data drained them, byte for byte.
C10_SameOrder ==
    \A id \in ConnIds : \A j \in 1..Len(got[id]) :
        /\ got[id][j].idx \in 1..Len(drained)
        /\ got[id][j].batch = drained[got[id][j].idx].batch
        /\ j > 1 => got[id][j - 1].idx < got[id][j].idx

\* C10 witness: batches drained by two different host threads were enqueued for
\* one subscriber, and another subscriber got only the second of them
C10_Witness ==
    \E a, b \in ConnIds :
        /\ Len(got[a]) = 2
        /\ drained[got[a][1].idx].by # drained[got[a][2].idx].by
        /\ Len(got[b]) = 1
        /\ got[b][1].idx = got[a][2].idx

\* the records of the j-th batch subscriber id has received, as published
RecsOnWire(id, j) == drained[got[id][j].idx].recs

FullConns == {id \in conns : chan[id].rx /\ Len(chan[id].queue) >= buffer_size}

ClosedConns == {id \in conns : ~chan[id].rx}

\* what the claim says publish_batch returns for a broadcast over the
\* subscribers as they are now
ExpectedResult ==
    IF FullConns # {} THEN [kind |-> "TcpSend", n |-> Cardinality(FullConns)]
    ELSE IF ClosedConns # {} THEN [kind |-> "TcpDisconnects", n |-> Cardinality(ClosedConns)]
    ELSE [kind |-> "Ok", n |-> 0]

\* C12: publish_batch returns TcpSend(number of full queues) if a queue was
\* full, else TcpDisconnects(number of closed queues) if a queue was closed,
\* else Ok: publish hands that Result to its caller, or (strict delivery,
\* Result not Ok) sleeps to retry.
C12_ResultPrecedence ==
    [][\A t \in Threads :
         (pc[t] = "bcast" /\ pc'[t] # "bcast") =>
             /\ pc'[t] = "idle" => result'[t] = ExpectedResult
             /\ pc'[t] = "sleep" => ExpectedResult.kind # "Ok"
             /\ pc'[t] \in {"idle", "sleep"}]_vars

\* C12 witness: a broadcast met one full and one closed queue and publish
\* returned TcpSend(1)
C12_Witness ==
    \E t \in Threads :
        /\ pc[t] = "idle"
        /\ result[t] = [kind |-> "TcpSend", n |-> 1]
        /\ send_errs[t] = 1
        /\ disconnects[t] = 1

\* no thread is inside a callback or inside publish
Quiescent == \A t \in Threads : pc[t] = "idle" /\ hpc[t] = "none"

\* C13: once the callbacks and publish calls made so far have returned,
\* send_errs has grown by the number of try_sends classified Full and
\* disconnect_errs by the number classified Closed, over all broadcasts,
\* whichever thread made them.
C13_MetricsCountOutcomes ==
    Quiescent =>
        /\ metrics.send_errs = classified.full
        /\ metrics.disconnect_errs = classified.closed

\* the counters after one of them has grown by n
Bumped(m, field, n) == [m EXCEPT ![field] = @ + n]

FullQueues == {id \in conns : chan[id].rx /\ Len(chan[id].queue) >= buffer_size}

\* C15: with strict_delivery = false and min_subscribers = 0, a thread inside
\* publish returns, whether or not any writer ever dequeues; and the broadcast
\* leaves every full queue as it is and reports the full queues as TcpSend(n).
C15_NoBackpressure ==
    /\ \A t \in Threads : (pc[t] # "idle") ~> (pc[t] = "idle")
    /\ [][\A t \in Threads :
            (pc[t] = "bcast" /\ pc'[t] # "bcast") =>
                /\ pc'[t] = "idle"
                /\ \A id \in FullQueues : chan'[id] = chan[id]
                /\ FullQueues # {} =>
                       result'[t] = [kind |-> "TcpSend", n |-> Cardinality(FullQueues)]]_vars

\* a publish that has returned TcpSend(2) with both queues still full
C15_Witness ==
    \E t \in Threads :
        /\ pc[t] = "idle"
        /\ result[t] = [kind |-> "TcpSend", n |-> 2]
        /\ Cardinality(FullQueues) = 2

\* C16: with one connected subscriber that never reads, once N > buffer_size
\* batches have been broadcast, exactly N - buffer_size of the broadcasts were
\* classified Full, whatever the writer thread did in between.
C16_BackpressureDrop ==
    (Quiescent /\ Len(drained) > buffer_size) =>
        classified.full = Len(drained) - buffer_size

\* the connected subscribers that have closed their socket
ClosedPeers == {id \in conns : writer[id] = "peer_closed"}

\* C17: a broadcast made while a connected subscriber has closed its socket
\* leaves the subscriber set smaller by one and counts a disconnect.
C17_DisconnectReaping ==
    [][\A t \in Threads :
         (pc[t] = "bcast" /\ pc'[t] # "bcast" /\ Cardinality(ClosedPeers) = 1) =>
             /\ Cardinality(conns') = Cardinality(conns) - 1
             /\ classified'.closed > classified.closed]_vars

\* the records the receiver's callback has been given, once it has read all
\* that the writer thread wrote
Received(id) == connect_and_read(Concat(wire[id]))

\* the records published so far, in the order of their batches
Published == Concat([i \in 1..Len(drained) |-> Msgs(drained[i].recs)])

AllRecs == Concat([i \in 1..Len(drained) |-> drained[i].recs]) \o staged

\* C19: when a slot-status callback returns, whatever the status, the thread
\* has published a slot record (kind tag 1).
C19_SlotRecordPublished ==
    [][\A t \in Threads :
         (\/ \E s \in Slots, status \in Statuses : update_slot_status_skip(t, s, status)
          \/ FlushDone(t)
          \/ FlushFail(t)) =>
             \E i \in 1..Len(AllRecs') :
                 /\ AllRecs'[i].by = t
                 /\ AllRecs'[i].msg[1] = BYTE_PREFIX_SLOT]_vars

\* what the cache, the sender and the subscribers hold, and the counters
Observable == <<cache, bucket, nbucket, buffer, staged, drained, subs, locals, metrics>>

\* C20: with skip_vote_txs set, notify_transaction of a vote transaction
\* returns Ok to the host and changes neither the cache, the sender's buffer,
\* the queues, the wire, nor any metric.
C20_VoteFilter ==
    [][\A t \in Threads, tx \in Transactions, s \in Slots :
         (skip_vote_txs /\ tx.is_vote /\ notify_transaction(t, tx, s)) =>
             /\ UNCHANGED Observable
             /\ hpc'[t] = "none"
             /\ ret'[t].host = "Ok"]_vars

\* with skip_vote_txs set, a vote transaction has been notified and has
\* returned Ok, after a transaction that is no vote was cached
C20_Witness ==
    /\ skip_vote_txs
    /\ nput = 2
    /\ hpc[Host] = "none"
    /\ ret[Host].host = "Ok"
    /\ \E b \in BucketIds : \A k \in HashKeys : bucket[b][k] # NoVal <=> k \in TxKeys

\* C21: a record reaches publish from a callback only in the drain loop of a
\* Confirmed flush; and, in a flush that no other callback for the slot has
\* overlapped, the value handed to publish for a key is one of the last
\* values put for it, never one that a later put has overwritten.
C21_OnlyLastOnConfirm ==
    [][/\ npub' # npub =>
              \E t \in Threads : hpc[t] = "drain" /\ Len(handed'[t]) = Len(handed[t]) + 1
       /\ \A t \in Threads :
              (hpc[t] = "drain" /\ Len(handed'[t]) = Len(handed[t]) + 1
                                /\ ~tainted[slot[t]]) =>
                  LET e == handed'[t][Len(handed'[t])]
                  IN  e.data \in expect[t][e.key]]_vars

\* C22: a thread that is broadcasting, waiting at the gate or sleeping before
\* a retry does not hold the buffer lock: another thread that is in no call
\* can enter publish and append.
C22_LockOnlyForAppend ==
    \A t \in Threads :
        pc[t] \in {"gate", "bcast", "sleep"} =>
            /\ ~HoldsBuffer(t)
            /\ \A u \in Threads \ {t} :
                   (pc[u] = "idle" /\ hpc[u] = "none" /\ npub < MaxPublish) =>
                       \A msg \in Records : ENABLED Publish(u, msg)

\* C23: bind is once-per-instance: every bind call on a TcpSender after the
\* first one fails, whatever its port, and so the TcpSender never has a second
\* accept loop feeding its subscriber set
C23_BindOnce ==
    /\ \A i \in DOMAIN binds : i > 1 => ~binds[i].ok
    /\ Cardinality({i \in DOMAIN binds : binds[i].ok}) <= 1

\* what framing wrote says a length other than the one it stands for
Reduced(f) == from_le_bytes_usize(f.header) # f.len

\* C24: framing never writes a length prefix reduced modulo 2^32: no staged
\* record and no flushed batch carries a header that differs from its length
\* (a length that does not fit in a u32 is an error and nothing is emitted)
C24_FramingOverflow ==
    /\ \A i \in DOMAIN sized.data : ~Reduced(sized.data[i])
    /\ sized.batch # NoBatch => ~Reduced(sized.batch)

\* C25: once the puts into a slot that no flush has touched are over, the
\* bucket the outer map holds for the slot has a record for every key put (so
\* two racing first puts of distinct keys both reach a later Confirmed flush)
C25_FirstPutsRace ==
    \A s \in Slots :
        (\A t \in Threads : ~InPut(t, s)) =>
            \A k \in Keys :
                owed[s][k] # {} =>
                    /\ cache[s] # NoBucket
                    /\ bucket[cache[s]][k] \in owed[s][k]

\* C26: a publish error in the middle of a Confirmed flush loses nothing: the
\* entries the drain had not yet handed to publish are in the slot's bucket
\* after the handler has returned
C26_FailedFlushKeeps ==
    [][\A t \in Threads :
          (hpc[t] = "drain" /\ ~DrainGoesOn(t) /\ hpc'[t] = "none") =>
              \A e \in draining[t] :
                  /\ cache'[slot[t]] # NoBucket
                  /\ bucket'[cache'[slot[t]]][e.key] = e.data]_vars

\* C27: when the Confirmed handler for a slot completes, the cache holds no
\* bucket for the slot and the bucket the handler drained is empty
C27_FlushRemovesSlot ==
    [][\A t \in Threads :
          (hpc[t] = "drain" /\ hpc'[t] = "none") =>
              /\ cache'[slot[t]] = NoBucket
              /\ \A k \in HashKeys : bucket'[slot_data[t]][k] = NoVal]_vars

\* C28: no deadlock on the locks: no set of threads (host callbacks, heartbeat,
\* accept, writers) in which every thread waits for a lock that a thread of the
\* set holds; and locks nest only as bucket, then buffer, then subscriber set:
\* a holder of the conns guard is at no other lock, a holder of the buffer
\* lock is not at a bucket lock
C28_NoDeadlock ==
    /\ \A ST \in SUBSET Threads, SC \in SUBSET ConnIds :
           (ST # {} \/ SC # {}) =>
               ~ /\ \A t \in ST : \/ \E u \in ST : HostWaitsHost(t, u)
                                   \/ \E id \in SC : HostWaitsConn(t, id)
                 /\ \A id \in SC : \/ \E u \in ST : ConnWaitsHost(id, u)
                                    \/ \E j \in SC : ConnWaitsConn(id, j)
    /\ \A t \in Threads :
           /\ t \in ConnsReaders => ~WantsBuffer(t) /\ ~WantsBucket(t)
           /\ HoldsBuffer(t) => ~WantsBucket(t)
    /\ \A id \in ConnsWriters : ~WantsConnsWrite(id)

\* a flush holds its bucket and waits for the buffer that a broadcasting thread
\* holds, while the accept thread waits for the subscriber set that this
\* broadcasting thread holds
C28_Witness ==
    \E t \in Threads, u \in Threads, id \in ConnIds :
        /\ HoldsBucket(t, slot_data[t])
        /\ HostWaitsHost(t, u)
        /\ pc[u] = "bcast_rd"
        /\ ConnWaitsHost(id, u)

\* every record handed to publish so far: those staged in the TcpBuffer and
\* those of the batches flush_data returned
HandedOver ==
    {staged[i] : i \in DOMAIN staged}
        \cup UNION {{drained[i].recs[j] : j \in DOMAIN drained[i].recs} : i \in DOMAIN drained}

\* C29: a cached value is handed to publish at most once, whatever the
\* interleaving of puts and Confirmed flushes of the slot: no two publish calls
\* carry the same put's record
C29_PublishedAtMostOnce ==
    \A a \in HandedOver, b \in HandedOver : a.seq # b.seq => a.msg # b.msg

\* two puts' records were handed to publish, by flushes of which one
\* overlapped a put of the slot
C29_Witness ==
    /\ \E s \in Slots : tainted[s]
    /\ Cardinality(HandedOver) = MaxPuts
    /\ \A t \in Threads : hpc[t] = "none"

\* C30: when the Confirmed handler of a slot returns success, none of the
\* records it drained from the bucket and handed to publish is still staged in
\* the TcpBuffer: each went out in a batch that was broadcast
C30_FlushLeavesNothingStaged ==
    [][\A t \in Threads :
          (hpc[t] = "drain" /\ hpc'[t] = "none" /\ ret'[t].kind = "Ok") =>
              \A e \in {handed[t][i] : i \in DOMAIN handed[t]} :
                  \A j \in DOMAIN staged' :
                      ~(staged'[j].by = t /\ staged'[j].msg = e.data)]_vars

\* C31: no empty batch is handed to publish_batch: every batch flush_data has
\* returned, on a first attempt or on a strict retry, announces total_len > 0
\* and holds at least one framed record
C31_NoEmptyBatch ==
    \A i \in DOMAIN drained :
        /\ from_le_bytes(SubSeq(drained[i].batch, 1, HEADER_BYTE_SIZE)) > 0
        /\ Len(drained[i].batch) > HEADER_BYTE_SIZE
        /\ drained[i].recs # <<>>

\* how many of the records in the sequence recs are m
RECURSIVE CountOf(_, _)
CountOf(recs, m) ==
    IF recs = <<>> THEN 0
    ELSE (IF Head(recs) = m THEN 1 ELSE 0) + CountOf(Tail(recs), m)

\* how many times the record m has been enqueued for subscriber id, over the
\* first n batches enqueued for it
RECURSIVE Enqueued(_, _, _)
Enqueued(id, m, n) ==
    IF n = 0 THEN 0
    ELSE CountOf(read_response(got[id][n].batch), m) + Enqueued(id, m, n - 1)

\* C32: at-most-once delivery per subscriber: no publish call's record is in
\* two of the batches enqueued for a subscriber (or twice in one), and a
\* subscriber's queue has been given a record no more often than publish was
\* called with it, strict retries included
C32_AtMostOncePerSubscriber ==
    \A id \in ConnIds :
        /\ \A j1, j2 \in DOMAIN got[id] :
               \A p1 \in DOMAIN RecsOnWire(id, j1), p2 \in DOMAIN RecsOnWire(id, j2) :
                   RecsOnWire(id, j1)[p1].seq = RecsOnWire(id, j2)[p2].seq
                       => (j1 = j2 /\ p1 = p2)
        /\ \A m \in Records :
               Enqueued(id, m, Len(got[id])) <= Cardinality({r \in HandedOver : r.msg = m})

\* in strict mode a batch was enqueued for subscriber a and refused by b, whose
\* queue was full, and the retry's batch was enqueued for a as well
C32_Witness ==
    /\ strict_delivery
    /\ \E a \in conns, b \in conns, i \in DOMAIN drained :
          /\ a # b
          /\ drained[i].recs # <<>>
          /\ i + 1 \in DOMAIN drained
          /\ drained[i + 1].by = drained[i].by /\ drained[i + 1].recs = <<>>
          /\ \E j \in DOMAIN got[a] : got[a][j].idx = i
          /\ \E j \in DOMAIN got[a] : got[a][j].idx = i + 1
          /\ \A j \in DOMAIN got[b] : got[b][j].idx # i

\* C33: a writer thread whose write_all fails leaves its loop and eventually
\* removes its own id from the subscriber set and no other; neither step
\* touches the set entry or the queue of another subscriber
C33_WriterExit ==
    /\ [][\A id \in ConnIds :
             /\ (writer[id] = "recv" /\ writer'[id] = "exiting") =>
                    /\ conns' = conns
                    /\ \A j \in ConnIds \ {id} : chan'[j] = chan[j]
             /\ (writer[id] = "exiting" /\ writer'[id] # "exiting") =>
                    /\ conns' = conns \ {id}
                    /\ \A j \in ConnIds \ {id} : chan'[j] = chan[j]]_vars
    /\ \A id \in ConnIds :
           (writer[id] = "exiting") ~> (writer[id] = "gone" /\ id \notin conns)

\* a writer thread has removed its id while another subscriber is in the set
\* with a batch in its queue
C33_Witness ==
    \E a \in ConnIds, b \in ConnIds :
        /\ writer[a] = "gone" /\ a \notin conns
        /\ b \in conns /\ chan[b].rx /\ chan[b].queue # <<>>

\* a step of the accept loop: add_conn of an id that no connection has had
AcceptStep ==
    \E id \in ConnIds :
        /\ writer[id] = "none" /\ id \notin conns
        /\ conns' = conns \cup {id}

\* a step of a writer thread on its way out: remove_conn of its own id
WriterExitStep ==
    \E id \in ConnIds :
        /\ writer[id] = "exiting" /\ writer'[id] = "gone"
        /\ conns' = conns \ {id}

\* C34: publish and publish_batch never change the subscriber set, whatever
\* the try_send outcomes; the set changes only when the accept loop inserts a
\* fresh id and when a writer thread removes its own id
C34_OnlyAcceptAndWriterChangeConns ==
    [][/\ (pc' # pc \/ npub' # npub) => conns' = conns
       /\ conns' # conns => (AcceptStep \/ WriterExitStep)]_vars

\* a broadcast has counted a disconnect for a subscriber that is still in the
\* set, its writer thread not having removed it yet
C34_Witness ==
    /\ classified.closed > 0
    /\ \E id \in conns : writer[id] = "exiting" /\ ~chan[id].rx
    /\ \E t \in Threads : pc[t] = "idle" /\ result[t].kind = "TcpDisconnects"

\* C35: the vector-based publish_batch removes exactly the connections whose
\* try_send reported a disconnect in that call, whatever the accept loop and
\* other publish_batch calls do meanwhile: no live subscriber is removed and no
\* index past the end of the Vec
C35_VectorRemoval ==
    \A t \in Threads :
        /\ ~vsender.panicked[t]
        /\ vsender.pc[t] = "idle" => vsender.removed[t] = vsender.seen[t]

\* a step in which thread t's publish_batch runs its loop over conns
BroadcastStep(t) == pc[t] = "bcast" /\ pc'[t] # "bcast"

\* C36: a subscriber whose queue is full loses the batch and nothing else: it
\* stays in the subscriber set, its receiver stays open, its queued batches and
\* its writer are untouched; a broadcast that finds room in its queue (its
\* writer has dequeued) enqueues the batch for it
C36_FullDropsBatchOnly ==
    [][\A t \in Threads : BroadcastStep(t) =>
          \A id \in conns :
              /\ try_send(chan[id], buffer_size) = "Full" =>
                    /\ id \in conns'
                    /\ chan'[id] = chan[id]
                    /\ chan'[id].rx
                    /\ writer'[id] = writer[id]
                    /\ got'[id] = got[id]
              /\ try_send(chan[id], buffer_size) = "Ok" =>
                    /\ chan'[id].queue = Append(chan[id].queue, batch[t])
                    /\ Len(got'[id]) = Len(got[id]) + 1]_vars

\* a subscriber took one batch, was skipped for the next one (Full), and after
\* its writer dequeued took the one after that
C36_Witness ==
    /\ classified.full > 0
    /\ \E id \in conns :
          /\ chan[id].rx
          /\ wire[id] # <<>>
          /\ \E i \in DOMAIN drained :
                /\ i + 2 \in DOMAIN drained
                /\ \E j \in DOMAIN got[id] : got[id][j].idx = i
                /\ \A j \in DOMAIN got[id] : got[id][j].idx # i + 1
                /\ \E j \in DOMAIN got[id] : got[id][j].idx = i + 2

\* the bytes the framed records of a sequence of staged records take
RECURSIVE FramedSize(_)
FramedSize(recs) ==
    IF recs = <<>> THEN 0
    ELSE HEADER_BYTE_SIZE + Len(Head(recs).msg) + FramedSize(Tail(recs))

\* C37: total_bytesize is the sum of the lengths of the framed records the
\* TcpBuffer holds, each one 4 + the record's length
C37_TotalIsSumOfFramed ==
    /\ Len(buffer.data) = Len(staged)
    /\ \A i \in DOMAIN buffer.data :
          Len(buffer.data[i]) = HEADER_BYTE_SIZE + Len(staged[i].msg)
    /\ buffer.total_bytesize = Len(Concat(buffer.data))
    /\ buffer.total_bytesize = FramedSize(staged)

\* a record staged after an earlier batch was drained
C37_Witness ==
    /\ drained # <<>>
    /\ drained[1].recs # <<>>
    /\ buffer.data # <<>>
    /\ buffer.total_bytesize > HEADER_BYTE_SIZE

\* how many times the record m is in the first n batches flush_data returned
RECURSIVE Drained(_, _)
Drained(m, n) ==
    IF n = 0 THEN 0
    ELSE CountOf(read_response(drained[n].batch), m) + Drained(m, n - 1)

\* C38: a flush leaves the TcpBuffer with no record and total_bytesize 0, and
\* what it drained is never staged again: every record publish appended is
\* either still staged or in one drained batch, once
C38_DrainedOnce ==
    /\ [][Len(drained') > Len(drained) =>
              /\ buffer'.data = <<>>
              /\ buffer'.total_bytesize = 0]_vars
    /\ [](\A m \in Records :
              Drained(m, Len(drained)) + CountOf(read_records(Concat(buffer.data)), m)
                  = Cardinality({r \in HandedOver : r.msg = m}))

\* two batches were drained, each with a record, and the buffer is empty
C38_Witness ==
    /\ Len(drained) >= 2
    /\ \A i \in DOMAIN drained : Len(read_response(drained[i].batch)) >= 1
    /\ buffer.data = <<>>
    /\ npub = MaxPublish

\* C39: a Confirmed flush of one slot never blocks ingest into another: while
\* a flush of slot s holds s's bucket lock (also while it is blocked inside
\* publish), no put for a different slot s' waits for a lock that the flush
\* holds
C39_FlushBlocksNoOtherSlot ==
    \A t \in Threads, u \in Threads :
        (/\ hpc[t] = "drain"
         /\ hpc[u] \in {"put_insert", "put_cache", "put_flush"}
         /\ slot[u] # slot[t])
            => ~HostWaitsHost(u, t)

\* notify_transaction of thread t returned at once: nothing was cached
SkippedBy(t) == hpc'[t] = "none" /\ nput' = nput + 1 /\ UNCHANGED Observable

\* the one instruction is for a loader and its data starts with byte 0 or 1
EitherLoaderEitherByte(m) ==
    /\ Len(m) = 1
    /\ m[1].program_id \in {"bpf_loader", "bpf_loader_upgradeable"}
    /\ m[1].data # <<>>
    /\ m[1].data[1] \in {0, 1}

\* the one instruction is a loader's write: byte 0 for the BPF loader, byte 1
\* for the upgradeable BPF loader
LoaderWrite(m) ==
    /\ Len(m) = 1
    /\ m[1].data # <<>>
    /\ \/ m[1].program_id = "bpf_loader" /\ m[1].data[1] = 0
       \/ m[1].program_id = "bpf_loader_upgradeable" /\ m[1].data[1] = 1

\* C40: with skip_deploy_txs, a transaction is skipped exactly when it has a
\* single instruction whose program is the BPF loader or the upgradeable BPF
\* loader and whose data starts with byte 0 or 1, for either loader; every
\* other transaction passes the filter
C40_DeployFilter ==
    [][\A t \in Threads, sig \in TxKeys, m \in Messages, s \in Slots :
         (skip_deploy_txs /\ notify_transaction(t, from_transaction(sig, m), s)) =>
             (SkippedBy(t) <=> EitherLoaderEitherByte(m))]_vars

\* C40, amended: with skip_deploy_txs, a transaction is skipped exactly when
\* it has a single instruction that is the BPF loader's with first data byte 0
\* or the upgradeable BPF loader's with first data byte 1; every other
\* transaction passes the filter and is cached
C40_DeployFilterPerLoader ==
    [][\A t \in Threads, sig \in TxKeys, m \in Messages, s \in Slots :
         (skip_deploy_txs /\ notify_transaction(t, from_transaction(sig, m), s)) =>
             /\ SkippedBy(t) <=> LoaderWrite(m)
             /\ ~LoaderWrite(m) => hpc'[t] = "put_insert" /\ acc'[t].key = sig]_vars

\* with skip_deploy_txs set, one transaction was skipped and returned Ok, and
\* one passed the filter and is in the cache
C40_Witness ==
    /\ skip_deploy_txs
    /\ ~skip_vote_txs
    /\ nput = 2
    /\ nbucket = 1
    /\ \A t \in Threads : hpc[t] = "none"
    /\ \E t \in Threads : ret[t].host = "Ok"
    /\ \E sl \in Slots : cache[sl] # NoBucket /\ bucket[cache[sl]]["T"] # NoVal

====
